---- MODULE Spec2Model ----
(***************************************************************************)
(* A model of CBuilder (src/cbuilder.py): the in-memory project tree       *)
(* (CProject / CModule / CClass / CFunction), the menu session that edits  *)
(* it, and the generator that writes the tree to the filesystem.           *)
(*                                                                         *)
(* Strings are sequences of one-character strings, so that the sanitizer   *)
(* and the text emitted by the generator are computed character by         *)
(* character.  Python's None is the value None below.                      *)
(*                                                                         *)
(* Six specifications share the variables:                                 *)
(*   Spec          the interactive session started by main()               *)
(*   EmptiedSpec   the session, also after its seed modules were removed   *)
(*   SanitizeSpec  the name sanitizer applied to bounded raw strings       *)
(*   ApiSpec       the classes used as a library: construction, append,    *)
(*                 remove_*, renaming and generate_project                 *)
(*   DirectSpec    the library use with direct calls of the generators of  *)
(*                 a module and of a class                                 *)
(*   HeaderSpec    one class given members, then generated                 *)
(***************************************************************************)
EXTENDS Integers, Sequences, FiniteSets, TLC

VARIABLES
    pc,               \* where the session is blocked (which prompt), or "exited"
    project,          \* the CProject object and, nested, its modules and classes
    curMod,           \* id of the module given to show_module_controls
    curClass,         \* id of the class given to show_class_controls
    user_cmd,         \* the last menu choice read (0 before the first)
    raw,              \* the last string returned by Prompt.ask for a name
    new_name,         \* mod_name / class_name / new_name after sanitizing
    io,               \* the last interaction: its kind and the prompt it came at
    nextId,           \* identity of the next object constructed
    edits,            \* number of add / remove / rename actions performed
    g_project_name,   \* the global g_project_name
    g_current_module, \* the global g_current_module
    dirs,             \* filesystem: the set of existing directories (absolute paths)
    files,            \* filesystem: path -> contents of the existing files
    cwd,              \* the process working directory (absolute path)
    fsLog,            \* the filesystem operations of the calls made, in order
    calls,            \* the generate_project calls made, in order
    apiOps            \* number of operations performed through the API

vars ==
    << pc, project, curMod, curClass, user_cmd, raw, new_name, io, nextId, edits,
       g_project_name, g_current_module, dirs, files, cwd, fsLog, calls, apiOps >>

sessionVars ==
    << pc, curMod, curClass, user_cmd, io, edits >>

fsVars ==
    << g_project_name, g_current_module, dirs, files, cwd, fsLog, calls >>

----------------------------------------------------------------------------
(* Bounds *)

\* The session performs at most this many add / remove / rename actions.
MaxEdits ==
    1

\* SanitizeSpec sanitizes every string over SanAlphabet of at most this length.
MaxSanLen ==
    3

\* ApiSpec performs at most this many operations: tree operations first,
\* generate_project calls after them.
MaxApiOps ==
    4

\* Members appended to the class of HeaderSpec.
MaxMembers ==
    3

----------------------------------------------------------------------------
(* Strings *)

None ==
    << "<None>" >>

Lower ==
    { "a","b","c","d","e","f","g","h","i","j","k","l","m",
      "n","o","p","q","r","s","t","u","v","w","x","y","z" }

Upper ==
    { "A","B","C","D","E","F","G","H","I","J","K","L","M",
      "N","O","P","Q","R","S","T","U","V","W","X","Y","Z" }

Digit ==
    { "0","1","2","3","4","5","6","7","8","9" }

\* The characters the pattern [^a-zA-Z0-9_] leaves in place.
IdentChars ==
    Lower \cup Upper \cup Digit \cup { "_" }

\* str.replace(' ', '_')
ReplaceSpaces(s) ==
    [ i \in 1..Len(s) |-> IF s[i] = " " THEN "_" ELSE s[i] ]

\* A variant of StripNonIdent that lets punctuation through.
StripNonIdentKeepsPunct(s) ==
    SelectSeq(s, LAMBDA c : c \in IdentChars \cup { "!", "-" })

\* re.sub(r'[^a-zA-Z0-9_]', '', s)
StripNonIdent(s) ==
    SelectSeq(s, LAMBDA c : c \in IdentChars)

\* The two statements every name prompt of the menus applies to its input.
Sanitize(s) ==
    StripNonIdent(ReplaceSpaces(s))

\* All strings over the alphabet A of length at most n.
StringsUpTo(A, n) ==
    UNION { [ 1..k -> A ] : k \in 0..n }

----------------------------------------------------------------------------
(* The entity model: CFunction, CClass, CModule, CProject *)

CFunction(name, description) ==
    [ name |-> name, description |-> description ]

\* CClass.__init__; id stands for the identity of the new object.
CClass(id, name) ==
    [ id |-> id, name |-> name,
      public_functions |-> << >>, private_functions |-> << >>,
      public_variables |-> << >>, private_variables |-> << >> ]

\* CModule.__init__
CModule(id, name) ==
    [ id |-> id, name |-> name, classes |-> << >> ]

\* CProject.__init__
CProject(name, cppnamespace) ==
    [ name |-> name,
      cppnamespace |-> IF Len(cppnamespace) > 0 THEN cppnamespace ELSE name,
      modules |-> << >> ]

\* What get_module / get_class return when no child has the name.
NoObject ==
    [ id |-> 0 ]

\* The index the loop `for x in seq: if x.name == name` stops at, 0 when it
\* runs off the end.
FirstMatch(seq, name) ==
    IF \E i \in 1..Len(seq) : seq[i].name = name
    THEN CHOOSE i \in 1..Len(seq) :
            /\ seq[i].name = name
            /\ \A j \in 1..(i - 1) : seq[j].name # name
    ELSE 0

\* A scan that stops at the last child with the name instead of the first.
LastMatch(seq, name) ==
    IF \E i \in 1..Len(seq) : seq[i].name = name
    THEN CHOOSE i \in 1..Len(seq) :
            /\ seq[i].name = name
            /\ \A j \in (i + 1)..Len(seq) : seq[j].name # name
    ELSE 0

\* list.remove(obj): drops the first element that is the object obj.
ListRemove(seq, obj) ==
    LET i == CHOOSE k \in 1..Len(seq) :
                /\ seq[k].id = obj.id
                /\ \A j \in 1..(k - 1) : seq[j].id # obj.id
    IN  SubSeq(seq, 1, i - 1) \o SubSeq(seq, i + 1, Len(seq))

\* CModule.get_class
get_class(module, name) ==
    IF FirstMatch(module.classes, name) = 0
    THEN NoObject
    ELSE module.classes[FirstMatch(module.classes, name)]

\* A remove_class that removes the last class with the name.
remove_class_last(module, name) ==
    IF LastMatch(module.classes, name) = 0
    THEN module
    ELSE [ module EXCEPT !.classes =
             ListRemove(module.classes, module.classes[LastMatch(module.classes, name)]) ]

\* CModule.remove_class
remove_class(module, name) ==
    IF FirstMatch(module.classes, name) = 0
    THEN module
    ELSE [ module EXCEPT !.classes =
             ListRemove(module.classes, module.classes[FirstMatch(module.classes, name)]) ]

\* A get_module that returns the last module with the name.
get_module_last(proj, name) ==
    IF LastMatch(proj.modules, name) = 0
    THEN NoObject
    ELSE proj.modules[LastMatch(proj.modules, name)]

\* CProject.get_module
get_module(proj, name) ==
    IF FirstMatch(proj.modules, name) = 0
    THEN NoObject
    ELSE proj.modules[FirstMatch(proj.modules, name)]

\* CProject.remove_module
remove_module(proj, name) ==
    IF FirstMatch(proj.modules, name) = 0
    THEN proj
    ELSE [ proj EXCEPT !.modules =
             ListRemove(proj.modules, proj.modules[FirstMatch(proj.modules, name)]) ]

\* Position in proj.modules of the module object with identity id.
ModuleIndex(proj, id) ==
    CHOOSE i \in 1..Len(proj.modules) : proj.modules[i].id = id

\* The module object with identity id.
ModuleOf(proj, id) ==
    proj.modules[ModuleIndex(proj, id)]

\* The project after the module object with identity m.id has become m.
WithModule(proj, m) ==
    [ proj EXCEPT !.modules[ModuleIndex(proj, m.id)] = m ]

----------------------------------------------------------------------------
(* The seed tree main() builds around the project it has constructed *)

SeedClientApp ==
    [ CClass(1, <<"c","l","i","e","n","t","_","a","p","p">>) EXCEPT
        !.public_functions =
            << CFunction(<<"r","e","n","d","e","r","_","a","p","p">>,
                         <<"M","a","i","n"," ","r","e","n","d","e","r","i","n","g"," ","r","o","u","t","i","n","e"," ","u","s","e","d"," ","t","o"," ","r","e","n","d","e","r"," ","t","h","e"," ","a","p","p","l","i","c","a","t","i","o","n">>),
               CFunction(<<"r","e","n","d","e","r","_","o","v","e","r","l","a","y">>,
                         <<"D","r","a","w","s"," ","t","h","e"," ","2","D"," ","o","v","e","r","l","a","y"," ","o","v","e","r"," ","t","h","e"," ","m","a","i","n"," ","w","i","n","d","o","w">>) >>,
        !.public_variables =
            << <<"s","t","d",":",":","u","n","i","q","u","e","_","p","t","r","<","C","l","i","e","n","t","S","t","a","t","e",">"," ","m","_","C","l","i","e","n","t","S","t","a","t","e"," ","="," ","n","u","l","l","p","t","r">> >>,
        !.private_functions =
            << CFunction(<<"r","e","n","d","e","r","_","b","a","c","k","g","r","o","u","n","d","_","c","o","l","o","r">>, None) >>,
        !.private_variables =
            << <<"R","e","n","d","e","r","e","r","*"," ","m","_","R","e","n","d","e","r","e","r">>,
               <<"W","i","n","d","o","w","*"," ","m","_","W","i","n","d","o","w">> >> ]

SeedUi ==
    [ CModule(2, <<"u","i">>) EXCEPT
        !.classes = << SeedClientApp, CClass(3, <<"p","a","n","e","l","s">>) >> ]

SeedNetwork ==
    [ CModule(4, <<"n","e","t","w","o","r","k">>) EXCEPT
        !.classes = << CClass(5, <<"P","a","c","k","e","t","s">>),
                       CClass(6, <<"N","e","t","w","o","r","k","M","a","n","a","g","e","r">>) >> ]

SeedUtils ==
    [ CModule(7, <<"u","t","i","l","s">>) EXCEPT
        !.classes = << CClass(8, <<"L","o","g","g","e","r">>) >> ]

\* The number of objects main() constructs for the seed tree.
SeedObjects ==
    8

\* The modules main() appends to the project, in the order it appends them.
SeedModules ==
    << SeedUi, SeedNetwork, SeedUtils >>

\* main(), from the construction of the project to the call of
\* show_project_controls: the project named by the prompt, with the seed tree.
SeededProject(name) ==
    [ CProject(name, << >>) EXCEPT !.modules = SeedModules ]

\* The project variable before main() has constructed the project.
NoProject ==
    [ name |-> None, cppnamespace |-> None, modules |-> << >> ]

----------------------------------------------------------------------------
(* The session: main(), show_project_controls, show_module_controls and     *)
(* show_class_controls.  Each blocking prompt is a value of pc; inside a    *)
(* try block an action is the code run from one prompt to the next.  The    *)
(* code outside every try block of the menus is split at its statements     *)
(* (pc = "main_setup", "project_loop", "interrupt_clear"): an interrupt     *)
(* there ends the process.                                                  *)

\* The strings the user types at the name prompts of the session.
SessionInputs ==
    { <<"a"," ","b","!">>, <<"u","i">>, <<"L","o","g","g","e","r">>, <<"!">> }

ProjectPrompts ==
    { "project_menu", "project_confirm_exit", "project_select",
      "project_add", "project_remove", "project_rename" }

ModulePrompts ==
    { "module_menu", "module_select", "module_add", "module_remove", "module_rename" }

ClassPrompts ==
    { "class_menu" }

NoCmd ==
    [ project |-> 0, module |-> 0, class |-> 0 ]

\* The filesystem, untouched by the session.
InitFs ==
    /\ g_project_name = None
    /\ g_current_module = None
    /\ dirs = { << >> }
    /\ files = << >>
    /\ cwd = << >>
    /\ fsLog = << >>
    /\ calls = << >>

Init ==
    /\ pc = "main_prompt"
    /\ project = NoProject
    /\ curMod = 0
    /\ curClass = 0
    /\ user_cmd = NoCmd
    /\ raw = None
    /\ new_name = None
    /\ io = [ ev |-> "none", at |-> "none" ]
    /\ nextId = 1
    /\ edits = 0
    /\ apiOps = 0
    /\ InitFs

\* main(): the project name prompt answered with s.  The statements of main()
\* that follow run outside every try block of the menus; pc = "main_setup"
\* until show_project_controls asks its first prompt.
MainPrompt(s) ==
    /\ pc = "main_prompt"
    /\ raw' = s
    /\ pc' = "main_setup"
    /\ io' = [ ev |-> "text", at |-> pc ]
    /\ UNCHANGED << project, curMod, curClass, user_cmd, new_name, nextId, edits, apiOps >>
    /\ UNCHANGED fsVars

\* project = CProject(...): the project constructed from the answer as it is.
MainConstructProject ==
    /\ pc = "main_setup"
    /\ project = NoProject
    /\ project' = CProject(raw, << >>)
    /\ UNCHANGED << pc, curMod, curClass, user_cmd, raw, new_name, io, nextId, edits, apiOps >>
    /\ UNCHANGED fsVars

\* clear_screen() and the construction of the seed classes and modules, one
\* object at a time: they are local to main() until they are appended.
MainConstructSeed ==
    /\ pc = "main_setup"
    /\ project # NoProject
    /\ nextId <= SeedObjects
    /\ nextId' = nextId + 1
    /\ UNCHANGED << pc, project, curMod, curClass, user_cmd, raw, new_name, io, edits, apiOps >>
    /\ UNCHANGED fsVars

\* project.modules.append(ui_module), (network_module), (utils_module)
MainAppendModule ==
    /\ pc = "main_setup"
    /\ nextId = SeedObjects + 1
    /\ Len(project.modules) < Len(SeedModules)
    /\ project' = [ project EXCEPT
                      !.modules = Append(@, SeedModules[Len(project.modules) + 1]) ]
    /\ UNCHANGED << pc, curMod, curClass, user_cmd, raw, new_name, io, nextId, edits, apiOps >>
    /\ UNCHANGED fsVars

\* show_project_controls(console, project) called: the head of its loop.
MainShowControls ==
    /\ pc = "main_setup"
    /\ nextId = SeedObjects + 1
    /\ Len(project.modules) = Len(SeedModules)
    /\ pc' = "project_loop"
    /\ UNCHANGED << project, curMod, curClass, user_cmd, raw, new_name, io, nextId, edits, apiOps >>
    /\ UNCHANGED fsVars

\* while True: try: the head of the loop of show_project_controls, between two
\* rounds and outside the try block, passed: the menu is rendered and its
\* prompt asked inside the try block.
ProjectLoop ==
    /\ pc = "project_loop"
    /\ pc' = "project_menu"
    /\ UNCHANGED << project, curMod, curClass, user_cmd, raw, new_name, io, nextId, edits, apiOps >>
    /\ UNCHANGED fsVars

\* show_project_controls: the menu prompt answered with option c.  Options 2,
\* 3 and 4 lead to a name prompt, option 6 to the confirmation, option 1 to
\* the module name prompt when there is a module; option 5 and option 1 on an
\* empty project match no branch, and the round ends at the head of the loop.
ProjectMenuOption(c) ==
    /\ pc = "project_menu"
    /\ c \in { 2, 3, 4 } => edits < MaxEdits
    /\ user_cmd' = [ user_cmd EXCEPT !.project = c ]
    /\ pc' = CASE c = 6 -> "project_confirm_exit"
               [] c = 1 /\ Len(project.modules) > 0 -> "project_select"
               [] c = 2 -> "project_add"
               [] c = 3 -> "project_remove"
               [] c = 4 -> "project_rename"
               [] OTHER -> "project_loop"
    /\ io' = [ ev |-> "menu", at |-> pc ]
    /\ UNCHANGED << project, curMod, curClass, raw, new_name, nextId, edits, apiOps >>
    /\ UNCHANGED fsVars

\* Option 6: Confirm.ask answered; True returns from show_project_controls
\* and main() ends, False falls through to the end of the round.
ProjectConfirmExit(b) ==
    /\ pc = "project_confirm_exit"
    /\ pc' = IF b THEN "exited" ELSE "project_loop"
    /\ io' = [ ev |-> IF b THEN "yes" ELSE "no", at |-> pc ]
    /\ UNCHANGED << project, curMod, curClass, user_cmd, raw, new_name, nextId, edits, apiOps >>
    /\ UNCHANGED fsVars

\* module_choices: the names the module name prompt accepts.
ModuleChoices(proj) ==
    { proj.modules[i].name : i \in 1..Len(proj.modules) }

\* class_choices: the names the class name prompt accepts.
ClassChoices(module) ==
    { module.classes[i].name : i \in 1..Len(module.classes) }

\* Option 1: the module name prompt accepts one of the module names only;
\* show_module_controls is entered with what get_module returns for it.
ProjectSelectModule ==
    /\ pc = "project_select"
    /\ \E n \in ModuleChoices(project) :
          curMod' = get_module(project, n).id
    /\ user_cmd' = [ user_cmd EXCEPT !.module = 0 ]
    /\ pc' = "module_menu"
    /\ io' = [ ev |-> "choice", at |-> pc ]
    /\ UNCHANGED << project, curClass, raw, new_name, nextId, edits, apiOps >>
    /\ UNCHANGED fsVars

\* An 'Add module' that appends nothing when a module has the name already.
ProjectAddModuleUnique(s) ==
    /\ pc = "project_add"
    /\ raw' = s
    /\ new_name' = Sanitize(s)
    /\ project' = IF Sanitize(s) \in ModuleChoices(project)
                   THEN project
                   ELSE [ project EXCEPT !.modules = Append(@, CModule(nextId, Sanitize(s))) ]
    /\ nextId' = nextId + 1
    /\ edits' = edits + 1
    /\ pc' = "project_loop"
    /\ io' = [ ev |-> "text", at |-> pc ]
    /\ UNCHANGED << curMod, curClass, user_cmd, apiOps >>
    /\ UNCHANGED fsVars

\* Option 2: a module named by the sanitized answer is appended.
ProjectAddModule(s) ==
    /\ pc = "project_add"
    /\ raw' = s
    /\ new_name' = Sanitize(s)
    /\ project' = [ project EXCEPT !.modules = Append(@, CModule(nextId, Sanitize(s))) ]
    /\ nextId' = nextId + 1
    /\ edits' = edits + 1
    /\ pc' = "project_loop"
    /\ io' = [ ev |-> "text", at |-> pc ]
    /\ UNCHANGED << curMod, curClass, user_cmd, apiOps >>
    /\ UNCHANGED fsVars

\* Option 3: remove_module is called with the sanitized answer.
ProjectRemoveModule(s) ==
    /\ pc = "project_remove"
    /\ raw' = s
    /\ new_name' = Sanitize(s)
    /\ project' = remove_module(project, Sanitize(s))
    /\ edits' = edits + 1
    /\ pc' = "project_loop"
    /\ io' = [ ev |-> "text", at |-> pc ]
    /\ UNCHANGED << curMod, curClass, user_cmd, nextId, apiOps >>
    /\ UNCHANGED fsVars

\* Option 4: the project is given the sanitized answer as its name.
ProjectEditName(s) ==
    /\ pc = "project_rename"
    /\ raw' = s
    /\ new_name' = Sanitize(s)
    /\ project' = [ project EXCEPT !.name = Sanitize(s) ]
    /\ edits' = edits + 1
    /\ pc' = "project_loop"
    /\ io' = [ ev |-> "text", at |-> pc ]
    /\ UNCHANGED << curMod, curClass, user_cmd, nextId, apiOps >>
    /\ UNCHANGED fsVars

\* A handler that returns from show_project_controls without asking.
ProjectInterruptExits ==
    /\ pc \in ProjectPrompts
    /\ pc' = "exited"
    /\ io' = [ ev |-> "interrupt", at |-> pc ]
    /\ UNCHANGED << project, curMod, curClass, user_cmd, raw, new_name, nextId, edits, apiOps >>
    /\ UNCHANGED fsVars

\* KeyboardInterrupt at a prompt inside the try block of
\* show_project_controls: the handler asks for confirmation.
ProjectInterrupt ==
    /\ pc \in ProjectPrompts
    /\ pc' = "interrupt_confirm"
    /\ io' = [ ev |-> "interrupt", at |-> pc ]
    /\ UNCHANGED << project, curMod, curClass, user_cmd, raw, new_name, nextId, edits, apiOps >>
    /\ UNCHANGED fsVars

\* The confirmation asked by the KeyboardInterrupt handler, answered: yes
\* returns, no goes on to the clear_screen() of the handler.
InterruptConfirm(b) ==
    /\ pc = "interrupt_confirm"
    /\ pc' = IF b THEN "exited" ELSE "interrupt_clear"
    /\ io' = [ ev |-> IF b THEN "yes" ELSE "no", at |-> pc ]
    /\ UNCHANGED << project, curMod, curClass, user_cmd, raw, new_name, nextId, edits, apiOps >>
    /\ UNCHANGED fsVars

\* The clear_screen() of the handler done: the round ends at the head of the
\* loop.
InterruptClear ==
    /\ pc = "interrupt_clear"
    /\ pc' = "project_loop"
    /\ UNCHANGED << project, curMod, curClass, user_cmd, raw, new_name, io, nextId, edits, apiOps >>
    /\ UNCHANGED fsVars

\* Where no try block of the menus is active: the project name prompt of
\* main(), the statements of main() after it, the head of the loop of
\* show_project_controls between two rounds, and its KeyboardInterrupt
\* handler, at the confirmation prompt and in the clear_screen().
OutsideTry ==
    { "main_prompt", "main_setup", "project_loop", "interrupt_confirm", "interrupt_clear" }

\* KeyboardInterrupt where no try block of the menus is active.  It reaches
\* the handler around main(), which passes.
TopLevelInterrupt ==
    /\ pc \in OutsideTry
    /\ pc' = "exited"
    /\ io' = [ ev |-> "interrupt", at |-> pc ]
    /\ UNCHANGED << project, curMod, curClass, user_cmd, raw, new_name, nextId, edits, apiOps >>
    /\ UNCHANGED fsVars

\* show_module_controls: the menu prompt answered with option c.  Option 5
\* returns to the loop of show_project_controls.
ModuleMenuOption(c) ==
    /\ pc = "module_menu"
    /\ c \in { 2, 3, 4 } => edits < MaxEdits
    /\ user_cmd' = IF c = 5 THEN [ user_cmd EXCEPT !.module = 0 ]
                            ELSE [ user_cmd EXCEPT !.module = c ]
    /\ pc' = CASE c = 5 -> "project_loop"
               [] c = 1 /\ Len(ModuleOf(project, curMod).classes) > 0 -> "module_select"
               [] c = 2 -> "module_add"
               [] c = 3 -> "module_remove"
               [] c = 4 -> "module_rename"
               [] OTHER -> "module_menu"
    /\ curMod' = IF c = 5 THEN 0 ELSE curMod
    /\ io' = [ ev |-> "menu", at |-> pc ]
    /\ UNCHANGED << project, curClass, raw, new_name, nextId, edits, apiOps >>
    /\ UNCHANGED fsVars

\* Option 1: the class name prompt accepts one of the class names only;
\* show_class_controls is entered with what get_class returns for it.
ModuleSelectClass ==
    /\ pc = "module_select"
    /\ \E n \in ClassChoices(ModuleOf(project, curMod)) :
          curClass' = get_class(ModuleOf(project, curMod), n).id
    /\ user_cmd' = [ user_cmd EXCEPT !.class = 0 ]
    /\ pc' = "class_menu"
    /\ io' = [ ev |-> "choice", at |-> pc ]
    /\ UNCHANGED << project, curMod, raw, new_name, nextId, edits, apiOps >>
    /\ UNCHANGED fsVars

\* An 'Add class' that appends the first class of the first module once more
\* instead of a new object.
ModuleAddClassAliased(s) ==
    /\ pc = "module_add"
    /\ raw' = s
    /\ new_name' = Sanitize(s)
    /\ project' = WithModule(project,
                     [ ModuleOf(project, curMod) EXCEPT
                         !.classes = Append(@, project.modules[1].classes[1]) ])
    /\ nextId' = nextId + 1
    /\ edits' = edits + 1
    /\ pc' = "module_menu"
    /\ io' = [ ev |-> "text", at |-> pc ]
    /\ UNCHANGED << curMod, curClass, user_cmd, apiOps >>
    /\ UNCHANGED fsVars

\* Option 2: a class named by the sanitized answer is appended.
ModuleAddClass(s) ==
    /\ pc = "module_add"
    /\ raw' = s
    /\ new_name' = Sanitize(s)
    /\ project' = WithModule(project,
                     [ ModuleOf(project, curMod) EXCEPT
                         !.classes = Append(@, CClass(nextId, Sanitize(s))) ])
    /\ nextId' = nextId + 1
    /\ edits' = edits + 1
    /\ pc' = "module_menu"
    /\ io' = [ ev |-> "text", at |-> pc ]
    /\ UNCHANGED << curMod, curClass, user_cmd, apiOps >>
    /\ UNCHANGED fsVars

\* Option 3: remove_class is called with the sanitized answer.
ModuleRemoveClass(s) ==
    /\ pc = "module_remove"
    /\ raw' = s
    /\ new_name' = Sanitize(s)
    /\ project' = WithModule(project, remove_class(ModuleOf(project, curMod), Sanitize(s)))
    /\ edits' = edits + 1
    /\ pc' = "module_menu"
    /\ io' = [ ev |-> "text", at |-> pc ]
    /\ UNCHANGED << curMod, curClass, user_cmd, nextId, apiOps >>
    /\ UNCHANGED fsVars

\* Option 4: the module is given the sanitized answer as its name.
ModuleEditName(s) ==
    /\ pc = "module_rename"
    /\ raw' = s
    /\ new_name' = Sanitize(s)
    /\ project' = WithModule(project, [ ModuleOf(project, curMod) EXCEPT !.name = Sanitize(s) ])
    /\ edits' = edits + 1
    /\ pc' = "module_menu"
    /\ io' = [ ev |-> "text", at |-> pc ]
    /\ UNCHANGED << curMod, curClass, user_cmd, nextId, apiOps >>
    /\ UNCHANGED fsVars

\* A show_module_controls without its own handler: the interrupt reaches the
\* handler of show_project_controls, which asks for confirmation.
ModuleInterruptAsks ==
    /\ pc \in ModulePrompts
    /\ pc' = "interrupt_confirm"
    /\ curMod' = 0
    /\ user_cmd' = [ user_cmd EXCEPT !.module = 0 ]
    /\ io' = [ ev |-> "interrupt", at |-> pc ]
    /\ UNCHANGED << project, curClass, raw, new_name, nextId, edits, apiOps >>
    /\ UNCHANGED fsVars

\* KeyboardInterrupt at a prompt of show_module_controls: the function
\* returns, and the round of show_project_controls ends.
ModuleInterrupt ==
    /\ pc \in ModulePrompts
    /\ pc' = "project_loop"
    /\ curMod' = 0
    /\ user_cmd' = [ user_cmd EXCEPT !.module = 0 ]
    /\ io' = [ ev |-> "interrupt", at |-> pc ]
    /\ UNCHANGED << project, curClass, raw, new_name, nextId, edits, apiOps >>
    /\ UNCHANGED fsVars

\* A show_class_controls whose option 5 gives the class shown another name.
ClassMenuOptionRenames(c) ==
    /\ pc = "class_menu"
    /\ user_cmd' = IF c = 6 THEN [ user_cmd EXCEPT !.class = 0 ]
                            ELSE [ user_cmd EXCEPT !.class = c ]
    /\ pc' = IF c = 6 THEN "module_menu" ELSE "class_menu"
    /\ curClass' = IF c = 6 THEN 0 ELSE curClass
    /\ io' = [ ev |-> "menu", at |-> pc ]
    /\ project' = IF c # 5 THEN project
                   ELSE WithModule(project,
                           [ ModuleOf(project, curMod) EXCEPT
                               !.classes = [ j \in 1..Len(@) |->
                                   IF @[j].id = curClass
                                   THEN [ @[j] EXCEPT !.name = << "x" >> ]
                                   ELSE @[j] ] ])
    /\ UNCHANGED << curMod, raw, new_name, nextId, edits, apiOps >>
    /\ UNCHANGED fsVars

\* show_class_controls: the menu prompt answered with option c.  Option 6
\* returns to the loop of show_module_controls; no other option has a branch.
ClassMenuOption(c) ==
    /\ pc = "class_menu"
    /\ user_cmd' = IF c = 6 THEN [ user_cmd EXCEPT !.class = 0 ]
                            ELSE [ user_cmd EXCEPT !.class = c ]
    /\ pc' = IF c = 6 THEN "module_menu" ELSE "class_menu"
    /\ curClass' = IF c = 6 THEN 0 ELSE curClass
    /\ io' = [ ev |-> "menu", at |-> pc ]
    /\ UNCHANGED << project, curMod, raw, new_name, nextId, edits, apiOps >>
    /\ UNCHANGED fsVars

\* KeyboardInterrupt at the prompt of show_class_controls: the function
\* returns, and show_module_controls shows its menu again.
ClassInterrupt ==
    /\ pc \in ClassPrompts
    /\ pc' = "module_menu"
    /\ curClass' = 0
    /\ user_cmd' = [ user_cmd EXCEPT !.class = 0 ]
    /\ io' = [ ev |-> "interrupt", at |-> pc ]
    /\ UNCHANGED << project, curMod, raw, new_name, nextId, edits, apiOps >>
    /\ UNCHANGED fsVars

Next ==
    \/ \E s \in SessionInputs : MainPrompt(s)
    \/ MainConstructProject
    \/ MainConstructSeed
    \/ MainAppendModule
    \/ MainShowControls
    \/ ProjectLoop
    \/ \E c \in 1..6 : ProjectMenuOption(c)
    \/ \E b \in BOOLEAN : ProjectConfirmExit(b)
    \/ ProjectSelectModule
    \/ \E s \in SessionInputs : ProjectAddModule(s)
    \/ \E s \in SessionInputs : ProjectRemoveModule(s)
    \/ \E s \in SessionInputs : ProjectEditName(s)
    \/ ProjectInterrupt
    \/ \E b \in BOOLEAN : InterruptConfirm(b)
    \/ InterruptClear
    \/ TopLevelInterrupt
    \/ \E c \in 1..5 : ModuleMenuOption(c)
    \/ ModuleSelectClass
    \/ \E s \in SessionInputs : ModuleAddClass(s)
    \/ \E s \in SessionInputs : ModuleRemoveClass(s)
    \/ \E s \in SessionInputs : ModuleEditName(s)
    \/ ModuleInterrupt
    \/ \E c \in 1..6 : ClassMenuOption(c)
    \/ ClassInterrupt

Spec ==
    Init /\ [][Next]_vars

----------------------------------------------------------------------------
(* EmptiedSpec: the session, and the session gone on after its user has     *)
(* removed the three seed modules.  Three answers to 'Remove module' lead   *)
(* there, more than MaxEdits allows from the start.                         *)

\* The round of the project menu that removed 'utils', the last of the seed
\* modules after 'ui' and 'network', has ended: the project is empty.
EmptiedInit ==
    /\ pc = "project_loop"
    /\ \E s \in SessionInputs : project = CProject(s, << >>)
    /\ curMod = 0
    /\ curClass = 0
    /\ user_cmd = [ NoCmd EXCEPT !.project = 3 ]
    /\ raw = SeedUtils.name
    /\ new_name = SeedUtils.name
    /\ io = [ ev |-> "text", at |-> "project_remove" ]
    /\ nextId = SeedObjects + 1
    /\ edits = 0
    /\ apiOps = 0
    /\ InitFs

EmptiedSpec ==
    (Init \/ EmptiedInit) /\ [][Next]_vars

----------------------------------------------------------------------------
(* SanitizeSpec: the sanitizer applied to every bounded raw string *)

\* Letters of both cases, a digit, the underscore, the space and punctuation.
SanAlphabet ==
    { "a", "Z", "9", "_", " ", "!", "-" }

SanInit ==
    /\ pc = "sanitize"
    /\ raw \in StringsUpTo(SanAlphabet, MaxSanLen)
    /\ new_name = None
    /\ project = NoProject
    /\ curMod = 0
    /\ curClass = 0
    /\ user_cmd = NoCmd
    /\ io = [ ev |-> "none", at |-> "none" ]
    /\ nextId = 1
    /\ edits = 0
    /\ apiOps = 0
    /\ InitFs

\* The two statements of a name prompt, applied to the string read.
SanitizeStep ==
    /\ pc = "sanitize"
    /\ new_name' = Sanitize(raw)
    /\ pc' = "sanitized"
    /\ UNCHANGED << project, curMod, curClass, user_cmd, raw, io, nextId, edits, apiOps >>
    /\ UNCHANGED fsVars

SanNext ==
    SanitizeStep

SanitizeSpec ==
    SanInit /\ [][SanNext]_vars

----------------------------------------------------------------------------
(* The generated text: CClass.__generate_header_file and                    *)
(* CClass.__generate_source_file, as the concatenation of their writes      *)

PRAGMA_ONCE_DEFINITION ==
    <<"#","p","r","a","g","m","a"," ","o","n","c","e","\n">>

\* '{}'.format(x) for a string or None
Format(x) ==
    IF x = None THEN <<"N","o","n","e">> ELSE x

\* The concatenation of the strings of a sequence of strings.
RECURSIVE Concat(_)
Concat(ss) ==
    IF ss = << >> THEN << >> ELSE Head(ss) \o Concat(Tail(ss))

\* description.replace('\n', '\n\t\t\t')
IndentNewlines(s) ==
    Concat([ i \in 1..Len(s) |-> IF s[i] = "\n" THEN << "\n", "\t", "\t", "\t" >>
                                                ELSE << s[i] >> ])

\* CClass.__get_header_function_declaration
get_header_function_declaration(fn) ==
    (IF fn.description # None
     THEN <<"\t","\t","/","*","\n","\t","\t","\t">> \o IndentNewlines(fn.description) \o <<"\n","\t","\t","*","/","\n">>
     ELSE << >>)
    \o <<"\t","\t","v","o","i","d"," ">> \o Format(fn.name) \o <<"(",")",";","\n">>
    \o (IF fn.description # None THEN << "\n" >> ELSE << >>)

\* The declarations of a sequence of functions, in order.
FunctionDeclarations(fns) ==
    Concat([ i \in 1..Len(fns) |-> get_header_function_declaration(fns[i]) ])

\* for var in vars: f.write('\t\t{};\n'.format(var))
VariableDeclarations(vs) ==
    Concat([ i \in 1..Len(vs) |-> << "\t", "\t" >> \o Format(vs[i]) \o << ";", "\n" >> ])

PublicMarker ==
    <<"\t","p","u","b","l","i","c",":","\n">>

PrivateMarker ==
    <<"\t","p","r","i","v","a","t","e",":","\n">>

\* 'namespace {}::{}\n{{\n'.format(g_project_name, g_current_module)
NamespaceBegin(gpn, gcm) ==
    <<"n","a","m","e","s","p","a","c","e"," ">> \o Format(gpn) \o << ":", ":" >> \o Format(gcm) \o << "\n", "{", "\n" >>

\* A __generate_header_file whose private sections list the private members.
HeaderTextPrivateFromPrivate(cls, gpn, gcm) ==
    PRAGMA_ONCE_DEFINITION
    \o << "\n" >> \o NamespaceBegin(gpn, gcm)
    \o <<"\t","c","l","a","s","s"," ">> \o Format(cls.name) \o << "\n" >>
    \o << "\t", "{" >>
    \o (IF Len(cls.public_functions) > 0
        THEN << "\n" >> \o PublicMarker \o FunctionDeclarations(cls.public_functions)
        ELSE << >>)
    \o (IF Len(cls.public_variables) > 0
        THEN << "\n" >> \o PublicMarker \o VariableDeclarations(cls.public_variables)
        ELSE << >>)
    \o (IF Len(cls.private_functions) > 0
        THEN << "\n" >> \o PrivateMarker \o FunctionDeclarations(cls.private_functions)
        ELSE << >>)
    \o (IF Len(cls.private_variables) > 0
        THEN << "\n" >> \o PrivateMarker \o VariableDeclarations(cls.private_variables)
        ELSE << >>)
    \o << "\n" >>
    \o <<"\t","}",";","\n">>
    \o << "}", "\n" >>

\* A __generate_header_file that opens a private section when the list it
\* iterates has members.
HeaderTextGuardedByListed(cls, gpn, gcm) ==
    PRAGMA_ONCE_DEFINITION
    \o << "\n" >> \o NamespaceBegin(gpn, gcm)
    \o <<"\t","c","l","a","s","s"," ">> \o Format(cls.name) \o << "\n" >>
    \o << "\t", "{" >>
    \o (IF Len(cls.public_functions) > 0
        THEN << "\n" >> \o PublicMarker \o FunctionDeclarations(cls.public_functions)
        ELSE << >>)
    \o (IF Len(cls.public_variables) > 0
        THEN << "\n" >> \o PublicMarker \o VariableDeclarations(cls.public_variables)
        ELSE << >>)
    \o (IF Len(cls.public_functions) > 0
        THEN << "\n" >> \o PrivateMarker \o FunctionDeclarations(cls.public_functions)
        ELSE << >>)
    \o (IF Len(cls.public_variables) > 0
        THEN << "\n" >> \o PrivateMarker \o VariableDeclarations(cls.public_variables)
        ELSE << >>)
    \o << "\n" >>
    \o <<"\t","}",";","\n">>
    \o << "}", "\n" >>

\* The text __generate_header_file writes for the class cls while the globals
\* g_project_name and g_current_module hold gpn and gcm.
HeaderText(cls, gpn, gcm) ==
    PRAGMA_ONCE_DEFINITION
    \o << "\n" >> \o NamespaceBegin(gpn, gcm)
    \o <<"\t","c","l","a","s","s"," ">> \o Format(cls.name) \o << "\n" >>
    \o << "\t", "{" >>
    \o (IF Len(cls.public_functions) > 0
        THEN << "\n" >> \o PublicMarker \o FunctionDeclarations(cls.public_functions)
        ELSE << >>)
    \o (IF Len(cls.public_variables) > 0
        THEN << "\n" >> \o PublicMarker \o VariableDeclarations(cls.public_variables)
        ELSE << >>)
    \o (IF Len(cls.private_functions) > 0
        THEN << "\n" >> \o PrivateMarker \o FunctionDeclarations(cls.public_functions)
        ELSE << >>)
    \o (IF Len(cls.private_variables) > 0
        THEN << "\n" >> \o PrivateMarker \o VariableDeclarations(cls.public_variables)
        ELSE << >>)
    \o << "\n" >>
    \o <<"\t","}",";","\n">>
    \o << "}", "\n" >>

\* The text __generate_source_file writes for the class cls.
SourceText(cls, gpn, gcm) ==
    <<"#","i","n","c","l","u","d","e"," ","\"">> \o cls.name \o <<".","h">> \o << "\"", "\n", "\n" >>
    \o NamespaceBegin(gpn, gcm)
    \o << "}", "\n" >>

----------------------------------------------------------------------------
(* The filesystem port: os.path.abspath, os.path.isdir, os.mkdir, os.chdir  *)
(* and open(..., 'w').  A path is the sequence of its component names from  *)
(* the root.  A generation is threaded through a record st holding the      *)
(* filesystem, the working directory, the two globals, the log and whether  *)
(* an exception is propagating; every statement is skipped once one is.     *)

DotDot ==
    << ".", "." >>

\* The components of a path name: what str.split('/') returns.
RECURSIVE SplitPath(_)
SplitPath(s) ==
    IF \A i \in 1..Len(s) : s[i] # "/" THEN << s >>
    ELSE LET k == CHOOSE i \in 1..Len(s) : s[i] = "/" /\ \A j \in 1..(i - 1) : s[j] # "/"
         IN  << SubSeq(s, 1, k - 1) >> \o SplitPath(SubSeq(s, k + 1, Len(s)))

\* os.path.isabs
isabs(s) ==
    Len(s) > 0 /\ s[1] = "/"

\* The path name of a path: '/' before every component, '/' for the root.
RECURSIVE PathString(_)
PathString(path) ==
    IF path = << >> THEN << "/" >>
    ELSE IF Len(path) = 1 THEN << "/" >> \o path[1]
    ELSE PathString(SubSeq(path, 1, Len(path) - 1)) \o << "/" >> \o path[Len(path)]

\* The directory holding the path; the root holds itself.
ParentDir(path) ==
    IF path = << >> THEN << >> ELSE SubSeq(path, 1, Len(path) - 1)

\* One component followed from the path cur: the empty component and '.' stay,
\* '..' goes to the parent, a name goes down.
StepInto(cur, c) ==
    IF c = << >> \/ c = << "." >> THEN cur
    ELSE IF c = DotDot THEN ParentDir(cur)
    ELSE cur \o << c >>

\* os.path.normpath(os.path.join(wd, name)): the components followed from wd,
\* or from the root for an absolute name, whatever exists.
RECURSIVE FollowLexically(_, _)
FollowLexically(cur, comps) ==
    IF comps = << >> THEN cur
    ELSE FollowLexically(StepInto(cur, Head(comps)), Tail(comps))

normpath_join(wd, name) ==
    FollowLexically(IF isabs(name) THEN << >> ELSE wd, SplitPath(name))

\* os.path.abspath(target): os.getcwd() raises for a relative target when the
\* working directory is no directory any more.
abspath(st, target) ==
    [ raised |-> ~isabs(target) /\ st.cwd \notin st.dirs,
      path   |-> normpath_join(st.cwd, target) ]

\* A component that names an entry of a directory.
IsName(c) ==
    c \notin { << >>, << "." >>, DotDot }

\* The components followed as the system follows them: a name leads on when
\* it names a directory; the empty component, '.' and '..' always lead on,
\* from a directory that has been removed too (the system keeps the '.' and
\* the parent of a working directory that was removed).
RECURSIVE FollowDirs(_, _, _)
FollowDirs(ds, cur, comps) ==
    IF comps = << >> THEN [ ok |-> TRUE, path |-> cur ]
    ELSE LET next == StepInto(cur, Head(comps)) IN
         IF IsName(Head(comps)) /\ next \notin ds
         THEN [ ok |-> FALSE, path |-> next ]
         ELSE FollowDirs(ds, next, Tail(comps))

\* Where the system starts to follow a name.
StartDir(st, name) ==
    IF isabs(name) THEN << >> ELSE st.cwd

\* The directory a name leads to.
ResolveDir(st, name) ==
    IF name = << >> THEN [ ok |-> FALSE, path |-> st.cwd ]
    ELSE FollowDirs(st.dirs, StartDir(st, name), SplitPath(name))

\* The components without the empty ones a name ends with.
RECURSIVE StripTrailingEmpty(_)
StripTrailingEmpty(comps) ==
    IF comps # << >> /\ comps[Len(comps)] = << >>
    THEN StripTrailingEmpty(SubSeq(comps, 1, Len(comps) - 1))
    ELSE comps

\* The entry a name asks to create: the directory its leading components lead
\* to and its last component.  It can be created there when the directory is
\* found, has not been removed, and the last component is a name.
ResolveEntry(st, comps) ==
    LET parent == FollowDirs(st.dirs, st.cwd, SubSeq(comps, 1, Len(comps) - 1))
        leaf   == comps[Len(comps)]
    IN  [ ok   |-> parent.ok /\ parent.path \in st.dirs /\ IsName(leaf),
          path |-> parent.path \o << leaf >> ]

\* The log entry of one filesystem operation of the call in progress.
LogEntry(st, op, path, obj, ok) ==
    [ call |-> st.call, op |-> op, path |-> path, obj |-> obj, ok |-> ok,
      gpn |-> st.gpn, gcm |-> st.gcm ]

Raise(st, op, path, obj) ==
    [ st EXCEPT !.raised = TRUE, !.log = Append(@, LogEntry(st, op, path, obj, FALSE)) ]

\* os.path.isdir(name)
isdir(st, name) ==
    ResolveDir(st, name).ok

\* os.mkdir(name), called by the object obj: raises for the empty name, for a
\* name whose directory is not found and for a name that exists already.
os_mkdir(st, name, obj) ==
    LET comps == StripTrailingEmpty(SplitPath(name))
        entry == ResolveEntry([ st EXCEPT !.cwd = StartDir(st, name) ], comps)
    IN  IF st.raised THEN st
        ELSE IF \/ name = << >>
                \/ comps = << >>
                \/ ~entry.ok
                \/ entry.path \in st.dirs
                \/ entry.path \in DOMAIN st.files
             THEN Raise(st, "mkdir", normpath_join(st.cwd, name), obj)
             ELSE [ st EXCEPT !.dirs = @ \cup { entry.path },
                              !.log = Append(@, LogEntry(st, "mkdir", entry.path, obj, TRUE)) ]

\* os.chdir(name), called by the object obj
os_chdir(st, name, obj) ==
    LET dir == ResolveDir(st, name) IN
    IF st.raised THEN st
    ELSE IF ~dir.ok
         THEN Raise(st, "chdir", normpath_join(st.cwd, name), obj)
         ELSE [ st EXCEPT !.cwd = dir.path,
                          !.log = Append(@, LogEntry(st, "chdir", dir.path, obj, TRUE)) ]

\* with open(fname, 'w') as f: f.write(...), called by the object obj: the
\* file the name leads to is created or replaced.
write_file(st, fname, text, obj) ==
    LET entry == ResolveEntry([ st EXCEPT !.cwd = StartDir(st, fname) ], SplitPath(fname)) IN
    IF st.raised THEN st
    ELSE IF \/ fname = << >>
            \/ ~entry.ok
            \/ entry.path \in st.dirs
         THEN Raise(st, "write", normpath_join(st.cwd, fname), obj)
         ELSE [ st EXCEPT
                  !.files = [ q \in DOMAIN st.files \cup { entry.path } |->
                                 IF q = entry.path THEN text ELSE st.files[q] ],
                  !.log = Append(@, LogEntry(st, "write", entry.path, obj, TRUE)) ]

DotH ==
    <<".","h">>

DotCpp ==
    <<".","c","p","p">>

----------------------------------------------------------------------------
(* The generator: CClass.generate_class_files,                              *)
(* CModule.generate_cpp_source_files and CProject.generate_project          *)

\* CClass.__generate_header_file
generate_header_file(st, cls) ==
    write_file(st, cls.name \o DotH, HeaderText(cls, st.gpn, st.gcm), cls.id)

\* CClass.__generate_source_file
generate_source_file(st, cls) ==
    write_file(st, cls.name \o DotCpp, SourceText(cls, st.gpn, st.gcm), cls.id)

\* A generate_class_files that writes the header only.
generate_class_files_header_only(st, cls) ==
    generate_header_file(st, cls)

\* A generate_class_files that writes the source before the header.
generate_class_files_source_first(st, cls) ==
    generate_header_file(generate_source_file(st, cls), cls)

\* CClass.generate_class_files
generate_class_files(st, cls) ==
    generate_source_file(generate_header_file(st, cls), cls)

\* for cppclass in self.classes: cppclass.generate_class_files()
RECURSIVE ClassLoop(_, _)
ClassLoop(st, classes) ==
    IF classes = << >> THEN st
    ELSE ClassLoop(generate_class_files(st, Head(classes)), Tail(classes))

\* g_current_module = v
SetCurrentModule(st, v) ==
    IF st.raised THEN st ELSE [ st EXCEPT !.gcm = v ]

\* The function called by the object obj returns: the log keeps the working
\* directory and the globals it returns with.
Return(st, obj) ==
    IF st.raised THEN st
    ELSE [ st EXCEPT !.log = Append(@, LogEntry(st, "return", st.cwd, obj, TRUE)) ]

\* CModule.generate_cpp_source_files
generate_cpp_source_files(st, module) ==
    Return(
        SetCurrentModule(
            os_chdir(
                ClassLoop(
                    os_chdir(
                        os_mkdir(SetCurrentModule(st, module.name), module.name, module.id),
                        module.name, module.id),
                    module.classes),
                DotDot, module.id),
            None),
        module.id)

\* A __generate_source_files that goes on with the next module after a module
\* has failed, the exception being raised at the end of the walk.
RECURSIVE generate_source_files_keep_going(_, _)
generate_source_files_keep_going(st, modules) ==
    IF modules = << >> THEN st
    ELSE LET one  == generate_cpp_source_files(st, Head(modules))
             rest == generate_source_files_keep_going(
                         [ one EXCEPT !.raised = st.raised ], Tail(modules))
         IN  [ rest EXCEPT !.raised = one.raised \/ rest.raised ]

\* CProject.__generate_source_files
RECURSIVE generate_source_files(_, _)
generate_source_files(st, modules) ==
    IF modules = << >> THEN st
    ELSE generate_source_files(generate_cpp_source_files(st, Head(modules)), Tail(modules))

\* A generate_project that does not look for the project directory.
GenerateInTargetUnchecked(st, proj) ==
    LET done == generate_source_files(
                    os_chdir(os_mkdir(st, proj.name, 0), proj.name, 0),
                    proj.modules)
    IN  [ done EXCEPT !.result = IF done.raised THEN "raised" ELSE "done" ]

\* CProject.generate_project, from the check of the project directory on:
\* st.cwd is the target directory.
GenerateInTarget(st, proj) ==
    IF isdir(st, proj.name)
    THEN [ st EXCEPT !.result = "exists" ]
    ELSE LET done == generate_source_files(
                         os_chdir(os_mkdir(st, proj.name, 0), proj.name, 0),
                         proj.modules)
         IN  [ done EXCEPT !.result = IF done.raised THEN "raised" ELSE "done" ]

\* CProject.generate_project(target): the result is "missing" or "exists"
\* when a check fails and the call returns, "raised" when an exception leaves
\* the call, "done" otherwise.
generate_project(st, proj, target) ==
    LET named      == [ st EXCEPT !.gpn = proj.name ]
        target_dir == abspath(named, target)
    IN  IF target_dir.raised
        THEN [ Raise(named, "getcwd", named.cwd, 0) EXCEPT !.result = "raised" ]
        ELSE IF ~isdir(named, PathString(target_dir.path))
        THEN [ named EXCEPT !.result = "missing" ]
        ELSE GenerateInTarget(os_chdir(named, PathString(target_dir.path), 0), proj)

----------------------------------------------------------------------------
(* ApiSpec: a caller builds a project with the constructors, append,        *)
(* remove_module / remove_class and name assignments, then calls            *)
(* generate_project.  The process is launched in LaunchDir, which holds two *)
(* empty directories.                                                       *)

\* Names of modules and classes: what the sanitizer can return.
ApiNames ==
    { << >>, <<"a">>, <<"b">> }

\* Names of the project; the session takes its first one unsanitized, so a
\* name can be a path: the parent directory, or a name below a directory.
ApiProjectNames ==
    { << >>, <<"p">>, << ".", "." >>, <<"t","1","/","p">> }

\* The cppnamespace argument of CProject.
ApiNamespaces ==
    { << >>, <<"n">> }

\* Names given to the project later: the rename of the session sanitizes.
ApiRenamedNames ==
    { << >>, <<"p">> }

LaunchDir ==
    << <<"w">> >>

TargetOne ==
    LaunchDir \o << <<"t","1">> >>

TargetTwo ==
    LaunchDir \o << <<"t","2">> >>

\* The target_dir arguments: one of the two directories by its path relative
\* to LaunchDir, the other by its absolute path, a name that names nothing,
\* and the working directory.
ApiTargets ==
    { PathString(TargetTwo),
      << "t", "1" >>,
      << "n", "o", "d", "i", "r" >>,
      << "." >> }

ApiInit ==
    /\ pc = "api"
    /\ \E n \in ApiProjectNames, ns \in ApiNamespaces : project = CProject(n, ns)
    /\ curMod = 0
    /\ curClass = 0
    /\ user_cmd = NoCmd
    /\ raw = None
    /\ new_name = None
    /\ io = [ ev |-> "none", at |-> "none" ]
    /\ nextId = 1
    /\ edits = 0
    /\ apiOps = 0
    /\ g_project_name = None
    /\ g_current_module = None
    /\ dirs = { << >>, LaunchDir, TargetOne, TargetTwo }
    /\ files = << >>
    /\ cwd = LaunchDir
    /\ fsLog = << >>
    /\ calls = << >>

\* The tree is built before the first generate_project call.
ApiBuilding ==
    /\ pc = "api"
    /\ apiOps < MaxApiOps
    /\ calls = << >>

\* project.modules.append(CModule(n))
ApiAddModule(n) ==
    /\ ApiBuilding
    /\ project' = [ project EXCEPT !.modules = Append(@, CModule(nextId, n)) ]
    /\ nextId' = nextId + 1
    /\ new_name' = n
    /\ io' = [ ev |-> "add_module", at |-> 0 ]
    /\ apiOps' = apiOps + 1
    /\ UNCHANGED << pc, curMod, curClass, user_cmd, raw, edits >>
    /\ UNCHANGED fsVars

\* module.classes.append(CClass(n)) for the i-th module of the project
ApiAddClass(i, n) ==
    /\ ApiBuilding
    /\ i \in 1..Len(project.modules)
    /\ project' = [ project EXCEPT !.modules[i].classes = Append(@, CClass(nextId, n)) ]
    /\ nextId' = nextId + 1
    /\ new_name' = n
    /\ io' = [ ev |-> "add_class", at |-> i ]
    /\ apiOps' = apiOps + 1
    /\ UNCHANGED << pc, curMod, curClass, user_cmd, raw, edits >>
    /\ UNCHANGED fsVars

\* project.remove_module(n)
ApiRemoveModule(n) ==
    /\ ApiBuilding
    /\ project' = remove_module(project, n)
    /\ new_name' = n
    /\ io' = [ ev |-> "remove_module", at |-> 0 ]
    /\ apiOps' = apiOps + 1
    /\ UNCHANGED << pc, curMod, curClass, user_cmd, raw, nextId, edits >>
    /\ UNCHANGED fsVars

\* module.remove_class(n) for the i-th module of the project
ApiRemoveClass(i, n) ==
    /\ ApiBuilding
    /\ i \in 1..Len(project.modules)
    /\ project' = [ project EXCEPT !.modules[i] = remove_class(@, n) ]
    /\ new_name' = n
    /\ io' = [ ev |-> "remove_class", at |-> i ]
    /\ apiOps' = apiOps + 1
    /\ UNCHANGED << pc, curMod, curClass, user_cmd, raw, nextId, edits >>
    /\ UNCHANGED fsVars

\* project.name = n
ApiRenameProject(n) ==
    /\ ApiBuilding
    /\ project' = [ project EXCEPT !.name = n ]
    /\ new_name' = n
    /\ io' = [ ev |-> "rename_project", at |-> 0 ]
    /\ apiOps' = apiOps + 1
    /\ UNCHANGED << pc, curMod, curClass, user_cmd, raw, nextId, edits >>
    /\ UNCHANGED fsVars

\* The generation state a call starts from.
GenStart ==
    [ dirs |-> dirs, files |-> files, cwd |-> cwd,
      gpn |-> g_project_name, gcm |-> g_current_module,
      log |-> fsLog, call |-> Len(calls) + 1, raised |-> FALSE, result |-> "none" ]

\* project.generate_project(target), the whole call
ApiGenerate(target) ==
    /\ pc = "api"
    /\ apiOps < MaxApiOps
    /\ LET st == generate_project(GenStart, project, target) IN
       /\ dirs' = st.dirs
       /\ files' = st.files
       /\ cwd' = st.cwd
       /\ g_project_name' = st.gpn
       /\ g_current_module' = st.gcm
       /\ fsLog' = st.log
       /\ calls' = Append(calls, [ target |-> target,
                                   target_dir |-> normpath_join(cwd, target),
                                   name |-> project.name,
                                   result |-> st.result ])
    /\ io' = [ ev |-> "generate", at |-> 0 ]
    /\ apiOps' = apiOps + 1
    /\ UNCHANGED << pc, project, curMod, curClass, user_cmd, raw, new_name, nextId, edits >>

ApiNext ==
    \/ \E n \in ApiNames : ApiAddModule(n)
    \/ \E i \in 1..MaxApiOps, n \in ApiNames : ApiAddClass(i, n)
    \/ \E n \in ApiNames : ApiRemoveModule(n)
    \/ \E i \in 1..MaxApiOps, n \in ApiNames : ApiRemoveClass(i, n)
    \/ \E n \in ApiRenamedNames : ApiRenameProject(n)
    \/ \E target \in ApiTargets : ApiGenerate(target)

ApiSpec ==
    ApiInit /\ [][ApiNext]_vars

----------------------------------------------------------------------------
(* DirectSpec: the classes used as a library by a caller that also calls    *)
(* the public generators of a module and of a class itself:                 *)
(* CModule.generate_cpp_source_files and CClass.generate_class_files.       *)

\* The record of a call that is no generate_project call: it has no target,
\* and target_dir is the working directory it is made in.
DirectCall(st) ==
    [ target |-> None,
      target_dir |-> cwd,
      name |-> project.name,
      result |-> IF st.raised THEN "raised" ELSE "direct" ]

\* What a call leaves: the filesystem, the working directory, the globals.
CallLeaves(st) ==
    /\ dirs' = st.dirs
    /\ files' = st.files
    /\ cwd' = st.cwd
    /\ g_project_name' = st.gpn
    /\ g_current_module' = st.gcm
    /\ fsLog' = st.log
    /\ calls' = Append(calls, DirectCall(st))

\* project.modules[i].generate_cpp_source_files(), the whole call
ApiGenerateModule(i) ==
    /\ pc = "api"
    /\ apiOps < MaxApiOps
    /\ i <= Len(project.modules)
    /\ CallLeaves(generate_cpp_source_files(GenStart, project.modules[i]))
    /\ io' = [ ev |-> "generate_module", at |-> i ]
    /\ apiOps' = apiOps + 1
    /\ UNCHANGED << pc, project, curMod, curClass, user_cmd, raw, new_name, nextId, edits >>

\* project.modules[i].classes[j].generate_class_files(), the whole call
ApiGenerateClass(i, j) ==
    /\ pc = "api"
    /\ apiOps < MaxApiOps
    /\ i <= Len(project.modules)
    /\ j <= Len(project.modules[i].classes)
    /\ CallLeaves(generate_class_files(GenStart, project.modules[i].classes[j]))
    /\ io' = [ ev |-> "generate_class", at |-> i ]
    /\ apiOps' = apiOps + 1
    /\ UNCHANGED << pc, project, curMod, curClass, user_cmd, raw, new_name, nextId, edits >>

DirectNext ==
    \/ \E n \in ApiNames : ApiAddModule(n)
    \/ \E i \in 1..MaxApiOps, n \in ApiNames : ApiAddClass(i, n)
    \/ \E target \in ApiTargets : ApiGenerate(target)
    \/ \E i \in 1..MaxApiOps : ApiGenerateModule(i)
    \/ \E i, j \in 1..MaxApiOps : ApiGenerateClass(i, j)

DirectSpec ==
    ApiInit /\ [][DirectNext]_vars

----------------------------------------------------------------------------
(* HeaderSpec: a caller builds a project of one module with one class,      *)
(* appends members to the four member lists of the class as main() does for *)
(* client_app, then calls generate_project.                                 *)

\* The functions appended: one without and one with a description, the
\* description of two lines.
MemberFunctions ==
    { CFunction(<<"f">>, None),
      CFunction(<<"g">>, <<"d","\n","e">>) }

\* The variable declarations appended, each of one line.
MemberVariables ==
    { <<"i","n","t"," ","x">>, <<"y">> }

HeaderTarget ==
    PathString(TargetOne)

\* The class the members are appended to.
HeaderClass ==
    project.modules[1].classes[1]

MemberCount(cls) ==
    Len(cls.public_functions) + Len(cls.private_functions)
        + Len(cls.public_variables) + Len(cls.private_variables)

HeaderInit ==
    /\ pc = "api"
    /\ project = [ CProject(<<"p">>, << >>) EXCEPT
                     !.modules = << [ CModule(1, <<"m">>) EXCEPT
                                        !.classes = << CClass(2, <<"c">>) >> ] >> ]
    /\ curMod = 0
    /\ curClass = 0
    /\ user_cmd = NoCmd
    /\ raw = None
    /\ new_name = None
    /\ io = [ ev |-> "none", at |-> "none" ]
    /\ nextId = 3
    /\ edits = 0
    /\ apiOps = 0
    /\ g_project_name = None
    /\ g_current_module = None
    /\ dirs = { << >>, LaunchDir, TargetOne, TargetTwo }
    /\ files = << >>
    /\ cwd = LaunchDir
    /\ fsLog = << >>
    /\ calls = << >>

\* The members are appended before the first generate_project call.
HeaderBuilding ==
    /\ pc = "api"
    /\ calls = << >>
    /\ MemberCount(HeaderClass) < MaxMembers

AppendLeaves ==
    /\ io' = [ ev |-> "append", at |-> 0 ]
    /\ UNCHANGED << pc, curMod, curClass, user_cmd, raw, new_name, nextId, edits, apiOps >>
    /\ UNCHANGED fsVars

\* cls.public_functions.append(fn)
AppendPublicFunction(fn) ==
    /\ HeaderBuilding
    /\ project' = [ project EXCEPT !.modules[1].classes[1].public_functions = Append(@, fn) ]
    /\ AppendLeaves

\* cls.private_functions.append(fn)
AppendPrivateFunction(fn) ==
    /\ HeaderBuilding
    /\ project' = [ project EXCEPT !.modules[1].classes[1].private_functions = Append(@, fn) ]
    /\ AppendLeaves

\* cls.public_variables.append(var)
AppendPublicVariable(var) ==
    /\ HeaderBuilding
    /\ project' = [ project EXCEPT !.modules[1].classes[1].public_variables = Append(@, var) ]
    /\ AppendLeaves

\* cls.private_variables.append(var)
AppendPrivateVariable(var) ==
    /\ HeaderBuilding
    /\ project' = [ project EXCEPT !.modules[1].classes[1].private_variables = Append(@, var) ]
    /\ AppendLeaves

HeaderNext ==
    \/ \E fn \in MemberFunctions : AppendPublicFunction(fn)
    \/ \E fn \in MemberFunctions : AppendPrivateFunction(fn)
    \/ \E var \in MemberVariables : AppendPublicVariable(var)
    \/ \E var \in MemberVariables : AppendPrivateVariable(var)
    \/ ApiGenerate(HeaderTarget)
    \/ ApiGenerateClass(1, 1)

HeaderSpec ==
    HeaderInit /\ [][HeaderNext]_vars

----------------------------------------------------------------------------
(* Properties *)

\* s consists of characters of [A-Za-z0-9_] only (the empty string included).
IsIdent(s) ==
    \A i \in 1..Len(s) : s[i] \in IdentChars

\* s ends with the string suffix.
EndsWith(s, suffix) ==
    /\ Len(s) >= Len(suffix)
    /\ SubSeq(s, Len(s) - Len(suffix) + 1, Len(s)) = suffix

\* s starts with the string prefix.
StartsWith(s, prefix) ==
    /\ Len(s) >= Len(prefix)
    /\ SubSeq(s, 1, Len(prefix)) = prefix

\* C1: in every state after the startup prompt, the name of the project, of
\* every module and of every class consists of characters of [A-Za-z0-9_] only.
C1_AllNamesSanitized ==
    project # NoProject =>
        /\ IsIdent(project.name)
        /\ \A i \in 1..Len(project.modules) :
              /\ IsIdent(project.modules[i].name)
              /\ \A j \in 1..Len(project.modules[i].classes) :
                    IsIdent(project.modules[i].classes[j].name)

\* C2: choosing option 5 in the project menu calls generate_project on the
\* project (whose first statement stores the project name in g_project_name),
\* and the session is in the project menu afterwards.
C2_GenerateInvokesBuilder ==
    [][ (pc = "project_menu" /\ io'.ev = "menu" /\ user_cmd'.project = 5)
          => (g_project_name' = project.name /\ pc' = "project_loop") ]_vars

\* C3 as claimed: the session ends only at a confirmation prompt of the
\* project menu answered with yes; no interrupt ends it.
C3_ExitOnlyAfterConfirmation ==
    [][ (pc # "exited" /\ pc' = "exited")
          => (pc \in { "project_confirm_exit", "interrupt_confirm" } /\ io'.ev = "yes") ]_vars

\* C3 as amended: the session ends only at a confirmation prompt of the
\* project menu answered with yes, or by an interrupt that arrives outside the
\* try block of show_project_controls: at the startup prompt of main(), in the
\* statements of main() between the startup answer and the first menu, at the
\* head of the loop of show_project_controls between two rounds, or in the
\* interrupt handler, at its confirmation prompt or in its clear_screen().
\* An interrupt at a menu prompt, at a name prompt or at the confirmation of
\* option 6 never ends it.
C3_ExitByConfirmationOrOuterInterrupt ==
    [][ (pc # "exited" /\ pc' = "exited")
          => \/ pc \in { "project_confirm_exit", "interrupt_confirm" } /\ io'.ev = "yes"
             \/ pc \in OutsideTry /\ io'.ev = "interrupt" ]_vars

\* C3 witness: the session has ended by an interrupt in main(), after the
\* project was constructed and before a seed module was appended to it.
C3_Witness ==
    /\ pc = "exited"
    /\ io = [ ev |-> "interrupt", at |-> "main_setup" ]
    /\ project # NoProject
    /\ project.modules = << >>

\* The session has ended by an interrupt in the interrupt handler, at its
\* confirmation prompt and after the confirmation was answered with no.
C3_EndedInHandler ==
    /\ pc = "exited"
    /\ io.ev = "interrupt"
    /\ io.at \in { "interrupt_confirm", "interrupt_clear" }

\* C4: a generate_project call whose target is no directory, or whose target
\* holds a directory named after the project, reports the condition and
\* leaves the directories and the files as they were.
C4_FailedPreconditionLeavesFilesystem ==
    [][ (io'.ev = "generate" /\ Len(calls') = Len(calls) + 1)
          => LET call == calls'[Len(calls')]
                 target_dir == normpath_join(cwd, call.target)
             IN  /\ target_dir \notin dirs
                    => (call.result = "missing" /\ dirs' = dirs /\ files' = files)
                 /\ (target_dir \in dirs
                       /\ isdir([ cwd |-> target_dir, dirs |-> dirs ], project.name))
                    => (call.result = "exists" /\ dirs' = dirs /\ files' = files) ]_vars

\* C4 witness: one call has found the target missing and another has found
\* the project directory in place.
C4_Witness ==
    /\ \E k \in 1..Len(calls) : calls[k].result = "missing"
    /\ \E k \in 1..Len(calls) : calls[k].result = "exists"

\* C5: the namespace opened in every generated header and source file is
\* {namespace}::{module_name}, with the cppnamespace field of the project and
\* the name of the module directory the file is in.
C5_NamespaceIsProjectNamespace ==
    \A path \in DOMAIN files :
        LET ns == NamespaceBegin(project.cppnamespace, path[Len(path) - 1]) IN
        IF EndsWith(path[Len(path)], DotH)
        THEN StartsWith(files[path], PRAGMA_ONCE_DEFINITION \o << "\n" >> \o ns)
        ELSE EndsWith(files[path], ns \o << "}", "\n" >>)

\* The directories directly inside the directory d.
ChildDirs(d) ==
    { e \in dirs : Len(e) = Len(d) + 1 /\ SubSeq(e, 1, Len(d)) = d }

\* The files directly inside the directory d.
ChildFiles(d) ==
    { f \in DOMAIN files : Len(f) = Len(d) + 1 /\ SubSeq(f, 1, Len(d)) = d }

\* The directory a completed call has generated the project into.
ProjectDir(call) ==
    normpath_join(call.target_dir, call.name)

\* C6 as claimed: when a generation has completed the project directory holds one
\* directory per module, and each module directory one header and one source
\* file per class of the module: twice as many files as the module has classes.
C6_OneFilePairPerClass ==
    \A k \in { Len(calls) } \ { 0 } :
        calls[k].result = "done" =>
            /\ ProjectDir(calls[k]) \in dirs
            /\ Cardinality(ChildDirs(ProjectDir(calls[k]))) = Len(project.modules)
            /\ \A i \in 1..Len(project.modules) :
                  LET m == project.modules[i]
                      d == ProjectDir(calls[k]) \o << m.name >>
                  IN  /\ d \in dirs
                      /\ Cardinality(ChildFiles(d)) = 2 * Len(m.classes)
                      /\ Cardinality({ f \in ChildFiles(d) : EndsWith(f[Len(f)], DotH) })
                            = Len(m.classes)
                      /\ Cardinality({ f \in ChildFiles(d) : EndsWith(f[Len(f)], DotCpp) })
                            = Len(m.classes)

\* C6 as amended: when a generation has completed the project directory holds one
\* directory per module and nothing else, and each module directory holds
\* exactly one header and one source file per distinct class name of the
\* module: classes of one module with the same name share one pair of files.
C6_OneFilePairPerClassName ==
    \A k \in { Len(calls) } \ { 0 } :
        calls[k].result = "done" =>
            /\ ProjectDir(calls[k]) \in dirs
            /\ ChildFiles(ProjectDir(calls[k])) = { }
            /\ Cardinality(ChildDirs(ProjectDir(calls[k]))) = Len(project.modules)
            /\ \A i \in 1..Len(project.modules) :
                  LET m == project.modules[i]
                      d == ProjectDir(calls[k]) \o << m.name >>
                  IN  /\ d \in dirs
                      /\ ChildDirs(d) = { }
                      /\ ChildFiles(d) =
                            { d \o << n \o DotH >> : n \in ClassChoices(m) }
                            \cup { d \o << n \o DotCpp >> : n \in ClassChoices(m) }
                      /\ Cardinality(ChildFiles(d)) = 2 * Cardinality(ClassChoices(m))

\* C6 witness: the last generation has completed for a project one of whose
\* modules has two classes of the same name.
C6_Witness ==
    /\ calls # << >>
    /\ calls[Len(calls)].result = "done"
    /\ \E i \in 1..Len(project.modules) :
          \E j1, j2 \in 1..Len(project.modules[i].classes) :
              /\ j1 # j2
              /\ project.modules[i].classes[j1].name = project.modules[i].classes[j2].name

\* C7: what the sanitizing step returns contains only characters of
\* [A-Za-z0-9_], and no space.
C7_SanitizedAlphabet ==
    new_name # None =>
        \A i \in 1..Len(new_name) : new_name[i] \in IdentChars /\ new_name[i] # " "

\* C7 witness: a string with a space and a punctuation character has been
\* sanitized.
C7_Witness ==
    /\ pc = "sanitized"
    /\ raw = <<"a"," ","!">>
    /\ new_name = <<"a","_">>

\* after is before without the first element named name, or before itself
\* when no element has that name.
RemovedFirstNamed(before, after, name) ==
    IF \A i \in 1..Len(before) : before[i].name # name
    THEN after = before
    ELSE \E i \in 1..Len(before) :
            /\ before[i].name = name
            /\ \A j \in 1..(i - 1) : before[j].name # name
            /\ Len(after) = Len(before) - 1
            /\ \A j \in 1..Len(after) :
                  after[j] = IF j < i THEN before[j] ELSE before[j + 1]

\* C8: remove_module(name) and remove_class(name) leave the children as they
\* are when none has the name, and otherwise remove exactly the first child
\* with the name, the others keeping their order.
C8_RemoveFirstMatch ==
    [][ /\ (io'.ev = "remove_module" /\ apiOps' = apiOps + 1)
           => /\ RemovedFirstNamed(project.modules, project'.modules, new_name')
              /\ project'.name = project.name
        /\ (io'.ev = "remove_class" /\ apiOps' = apiOps + 1)
           => /\ Len(project'.modules) = Len(project.modules)
              /\ \A i \in 1..Len(project.modules) :
                    IF i = io'.at
                    THEN /\ RemovedFirstNamed(project.modules[i].classes,
                                              project'.modules[i].classes, new_name')
                         /\ project'.modules[i].name = project.modules[i].name
                    ELSE project'.modules[i] = project.modules[i] ]_vars

\* C8 witness: a child has been removed by a name that another child, added
\* later, still has.
C8_Witness ==
    /\ io.ev = "remove_class"
    /\ Len(project.modules) >= io.at
    /\ \E j \in 1..Len(project.modules[io.at].classes) :
          project.modules[io.at].classes[j].name = new_name

\* The directory a target names when the process is launched.
LaunchedTarget(target) ==
    normpath_join(LaunchDir, target)

\* What the directory root holds: the directories and the files below it, by
\* their paths relative to root, the files with their contents.
Subtree(root) ==
    [ dirs  |-> { SubSeq(d, Len(root) + 1, Len(d)) :
                    d \in { e \in dirs : Len(e) > Len(root) /\ SubSeq(e, 1, Len(root)) = root } },
      files |-> { << SubSeq(f, Len(root) + 1, Len(f)), files[f] >> :
                    f \in { g \in DOMAIN files : SubSeq(g, 1, Len(root)) = root } } ]

\* C9: two generations of the unchanged project into the two empty target
\* directories, each given by its absolute path or by its path relative to the
\* launch directory, leave identical trees in the two directories.
C9_TwoGenerationsIdentical ==
    ( /\ Len(calls) = 2
      /\ { LaunchedTarget(calls[1].target), LaunchedTarget(calls[2].target) }
            = { TargetOne, TargetTwo } )
    => Subtree(TargetOne) = Subtree(TargetTwo)

\* The operations of call k that changed the filesystem, in order.
Mutations(k) ==
    SelectSeq(fsLog, LAMBDA e : e.call = k /\ e.ok /\ e.op \in { "mkdir", "write" })

\* Position of the module that owns the object obj: the module itself, or the
\* module whose classes include it.
OwnerIndex(obj) ==
    CHOOSE i \in 1..Len(project.modules) :
        \/ project.modules[i].id = obj
        \/ \E j \in 1..Len(project.modules[i].classes) : project.modules[i].classes[j].id = obj

\* Position of the class obj among the classes of its module, 0 for a module.
ClassIndex(obj) ==
    IF project.modules[OwnerIndex(obj)].id = obj THEN 0
    ELSE CHOOSE j \in 1..Len(project.modules[OwnerIndex(obj)].classes) :
            project.modules[OwnerIndex(obj)].classes[j].id = obj

\* The place of a mutation in the walk: module, class, header before source.
WalkKey(e) ==
    << OwnerIndex(e.obj), ClassIndex(e.obj),
       IF e.op = "write" /\ EndsWith(e.path[Len(e.path)], DotCpp) THEN 1 ELSE 0 >>

KeyLess(a, b) ==
    \/ a[1] < b[1]
    \/ a[1] = b[1] /\ a[2] < b[2]
    \/ a[1] = b[1] /\ a[2] = b[2] /\ a[3] < b[3]

\* The number of classes of a sequence of modules.
RECURSIVE ClassCount(_)
ClassCount(modules) ==
    IF modules = << >> THEN 0
    ELSE Len(Head(modules).classes) + ClassCount(Tail(modules))

\* C10: in a generation that passes the checks the project directory is
\* created first; then module by module in insertion order the directory of
\* the module is created before its files, class by class in insertion order
\* the header is written before the source, all of it before the directory of
\* the next module; and every file is written into the directory of the
\* module that owns its class.
C10_WalkOrder ==
    \A k \in 1..Len(calls) :
        LET ops == Mutations(k)
            pdir == ProjectDir(calls[k])
        IN  /\ calls[k].result \in { "missing", "exists" } => ops = << >>
            /\ ops # << >> =>
                  /\ ops[1].op = "mkdir" /\ ops[1].obj = 0 /\ ops[1].path = pdir
                  /\ \A i \in 2..Len(ops) : ops[i].obj # 0
                  /\ \A i, j \in 2..Len(ops) :
                        i < j => KeyLess(WalkKey(ops[i]), WalkKey(ops[j]))
                  /\ \A i \in 2..Len(ops) :
                        LET m == project.modules[OwnerIndex(ops[i].obj)] IN
                        /\ ops[i].op = "mkdir" => ops[i].path = pdir \o << m.name >>
                        /\ ops[i].op = "write" =>
                              /\ SubSeq(ops[i].path, 1, Len(ops[i].path) - 1) = pdir \o << m.name >>
                              /\ \E h \in 2..(i - 1) :
                                    /\ ops[h].op = "mkdir"
                                    /\ ops[h].obj = m.id
                                    /\ ops[h].path = pdir \o << m.name >>
            /\ calls[k].result = "done" =>
                  Len(ops) = 1 + Len(project.modules) + 2 * ClassCount(project.modules)

\* C10 witness: a generation has completed for a project with two modules,
\* the first of which has a class.
C10_Witness ==
    /\ \E k \in 1..Len(calls) : calls[k].result = "done"
    /\ Len(project.modules) >= 2
    /\ Len(project.modules[1].classes) >= 1

\* The log entries of call k, in order.
CallLog(log, k) ==
    SelectSeq(log, LAMBDA e : e.call = k)

\* The class with the identity obj.
ClassOf(obj) ==
    project.modules[OwnerIndex(obj)].classes[ClassIndex(obj)]

\* What the write operation e of the log has put into its file.
WrittenText(e) ==
    IF EndsWith(e.path[Len(e.path)], DotH)
    THEN HeaderText(ClassOf(e.obj), e.gpn, e.gcm)
    ELSE SourceText(ClassOf(e.obj), e.gpn, e.gcm)

\* C11: when an os.mkdir fails in a generate_project call, the failing
\* operation is the last one of the call: every operation before it has
\* succeeded, the directories it created are in place and the files it wrote
\* hold what was last written to them, nothing that was there before the call
\* is removed or changed, nothing else is created, and no operation of the
\* call belongs to a class of the failing module or to a module after it.
C11_FailedMkdirAbortsKeepingEarlierWork ==
    [][ ( /\ io'.ev = "generate"
          /\ Len(calls') = Len(calls) + 1
          /\ \E i \in 1..Len(fsLog') :
                /\ fsLog'[i].call = Len(calls')
                /\ fsLog'[i].op = "mkdir"
                /\ ~fsLog'[i].ok )
        => LET ops  == CallLog(fsLog', Len(calls'))
               n    == Len(ops)
               fail == ops[n]
           IN  /\ calls'[Len(calls')].result = "raised"
               /\ fail.op = "mkdir" /\ ~fail.ok
               /\ \A i \in 1..(n - 1) : ops[i].ok
               /\ \A i \in 1..(n - 1) :
                     /\ ops[i].op = "mkdir" => ops[i].path \in dirs'
                     /\ ops[i].op = "write" =>
                           /\ ops[i].path \in DOMAIN files'
                           /\ (\A j \in (i + 1)..(n - 1) : ops[j].path # ops[i].path)
                                 => files'[ops[i].path] = WrittenText(ops[i])
               /\ dirs' = dirs \cup { ops[i].path : i \in { j \in 1..(n - 1) : ops[j].op = "mkdir" } }
               /\ DOMAIN files' = DOMAIN files
                     \cup { ops[i].path : i \in { j \in 1..(n - 1) : ops[j].op = "write" } }
               /\ \A f \in DOMAIN files :
                     (\A i \in 1..(n - 1) : ops[i].path # f) => files'[f] = files[f]
               /\ fail.obj # 0 =>
                     \A i \in 1..(n - 1) :
                        ops[i].obj # 0 => OwnerIndex(ops[i].obj) < OwnerIndex(fail.obj) ]_vars

\* C11 witness: a generation has raised at the os.mkdir of a module after it
\* had created the directory of an earlier module, and the project has a
\* module after the failing one.
C11_Witness ==
    /\ io.ev = "generate"
    /\ calls # << >>
    /\ calls[Len(calls)].result = "raised"
    /\ LET ops == CallLog(fsLog, Len(calls)) IN
       /\ ops[Len(ops)].op = "mkdir"
       /\ ops[Len(ops)].obj # 0
       /\ OwnerIndex(ops[Len(ops)].obj) < Len(project.modules)
       /\ \E i \in 1..(Len(ops) - 1) :
             ops[i].op = "mkdir" /\ ops[i].obj # 0 /\ ops[i].path \in dirs

\* The lines of a text: what str.split('\n') returns.
RECURSIVE SplitLines(_)
SplitLines(s) ==
    IF \A i \in 1..Len(s) : s[i] # "\n" THEN << s >>
    ELSE LET k == CHOOSE i \in 1..Len(s) : s[i] = "\n" /\ \A j \in 1..(i - 1) : s[j] # "\n"
         IN  << SubSeq(s, 1, k - 1) >> \o SplitLines(SubSeq(s, k + 1, Len(s)))

PublicLine ==
    <<"\t","p","u","b","l","i","c",":">>

PrivateLine ==
    <<"\t","p","r","i","v","a","t","e",":">>

\* The positions of the access marker lines among the lines, in order.
MarkerPositions(lines) ==
    SelectSeq([ i \in 1..Len(lines) |-> i ],
              LAMBDA i : lines[i] \in { PublicLine, PrivateLine })

\* The sections of the class body of a header: for every access marker line,
\* in order, the access it names and the lines between it and the next marker
\* line or the line that closes the class.
Sections(text) ==
    LET lines == SplitLines(text)
        marks == MarkerPositions(lines)
        close == Len(lines) - 2
    IN  [ k \in 1..Len(marks) |->
            [ access |-> IF lines[marks[k]] = PublicLine THEN "public" ELSE "private",
              body   |-> SubSeq(lines, marks[k] + 1,
                                (IF k < Len(marks) THEN marks[k + 1] ELSE close) - 1) ] ]

VoidPrefix ==
    <<"\t","\t","v","o","i","d"," ">>

\* The names of the functions declared by the lines of a section, in order.
DeclaredFunctions(body) ==
    LET decls == SelectSeq(body, LAMBDA l : StartsWith(l, VoidPrefix) /\ EndsWith(l, <<"(",")",";">>))
    IN  [ i \in 1..Len(decls) |-> SubSeq(decls[i], Len(VoidPrefix) + 1, Len(decls[i]) - 3) ]

\* The variables declared by the lines of a section, in order.
DeclaredVariables(body) ==
    LET decls == SelectSeq(body, LAMBDA l : StartsWith(l, <<"\t","\t">>) /\ EndsWith(l, <<";">>))
    IN  [ i \in 1..Len(decls) |-> SubSeq(decls[i], 3, Len(decls[i]) - 1) ]

\* 1 for a member list with members, 0 for an empty one.
NonEmpty(seq) ==
    IF Len(seq) > 0 THEN 1 ELSE 0

\* The generated header files.
HeaderFiles ==
    { f \in DOMAIN files : EndsWith(f[Len(f)], DotH) }

\* C12: in the generated header of the class, the section of the private
\* functions declares the functions of public_functions, in order, and the
\* section of the private variables the entries of public_variables, in
\* order; a private function whose name no public function has, and a private
\* variable that is no public variable, is on no line of the header; with no
\* public function the section of the private functions declares nothing.
C12_PrivateSectionsListPublicMembers ==
    \A f \in HeaderFiles :
        LET cls   == HeaderClass
            lines == SplitLines(files[f])
            secs  == Sections(files[f])
            pf    == NonEmpty(cls.public_functions) + NonEmpty(cls.public_variables) + 1
            pv    == pf + NonEmpty(cls.private_functions)
        IN  /\ Len(cls.private_functions) > 0 =>
                  /\ Len(secs) >= pf
                  /\ secs[pf].access = "private"
                  /\ DeclaredFunctions(secs[pf].body)
                        = [ i \in 1..Len(cls.public_functions) |-> cls.public_functions[i].name ]
                  /\ Len(cls.public_functions) = 0 =>
                        \A i \in 1..Len(secs[pf].body) : secs[pf].body[i] = << >>
            /\ Len(cls.private_variables) > 0 =>
                  /\ Len(secs) >= pv
                  /\ secs[pv].access = "private"
                  /\ DeclaredVariables(secs[pv].body) = cls.public_variables
            /\ \A i \in 1..Len(cls.private_functions) :
                  (\A j \in 1..Len(cls.public_functions) :
                       cls.public_functions[j].name # cls.private_functions[i].name)
                  => \A l \in 1..Len(lines) :
                        lines[l] # VoidPrefix \o cls.private_functions[i].name \o <<"(",")",";">>
            /\ \A i \in 1..Len(cls.private_variables) :
                  (\A j \in 1..Len(cls.public_variables) :
                       cls.public_variables[j] # cls.private_variables[i])
                  => \A l \in 1..Len(lines) :
                        lines[l] # <<"\t","\t">> \o cls.private_variables[i] \o <<";">>

\* C12 witness: a header has been generated for a class with one private
\* function, no public function, and a private variable that differs from its
\* one public variable, which the private section lists.
C12_Witness ==
    /\ HeaderFiles # { }
    /\ Len(HeaderClass.private_functions) = 1
    /\ Len(HeaderClass.public_functions) = 0
    /\ Len(HeaderClass.private_variables) = 1
    /\ Len(HeaderClass.public_variables) = 1
    /\ HeaderClass.private_variables[1] # HeaderClass.public_variables[1]
    /\ \E f \in HeaderFiles :
          \E k \in 1..Len(Sections(files[f])) :
              /\ Sections(files[f])[k].access = "private"
              /\ DeclaredVariables(Sections(files[f])[k].body) = HeaderClass.public_variables

\* The access markers a class with these four member lists is to get, in the
\* order public functions, public variables, private functions, private
\* variables: one for every list with members.
ExpectedMarkers(cls) ==
    (IF Len(cls.public_functions) > 0 THEN << "public" >> ELSE << >>)
    \o (IF Len(cls.public_variables) > 0 THEN << "public" >> ELSE << >>)
    \o (IF Len(cls.private_functions) > 0 THEN << "private" >> ELSE << >>)
    \o (IF Len(cls.private_variables) > 0 THEN << "private" >> ELSE << >>)

\* C13: the access marker lines of the generated header are, in order, one
\* 'public:' for public_functions when it has members, one 'public:' for
\* public_variables when it has members, one 'private:' for private_functions
\* when it has members and one 'private:' for private_variables when it has
\* members; the public sections declare the public functions and the public
\* variables; a class with four empty lists has no marker line.
C13_MarkerPerNonEmptyList ==
    \A f \in HeaderFiles :
        LET cls   == HeaderClass
            lines == SplitLines(files[f])
            secs  == Sections(files[f])
        IN  /\ [ k \in 1..Len(secs) |-> secs[k].access ] = ExpectedMarkers(cls)
            /\ Cardinality({ l \in 1..Len(lines) : lines[l] = PublicLine })
                  = NonEmpty(cls.public_functions) + NonEmpty(cls.public_variables)
            /\ Cardinality({ l \in 1..Len(lines) : lines[l] = PrivateLine })
                  = NonEmpty(cls.private_functions) + NonEmpty(cls.private_variables)
            /\ Len(cls.public_functions) > 0 =>
                  DeclaredFunctions(secs[1].body)
                     = [ i \in 1..Len(cls.public_functions) |-> cls.public_functions[i].name ]
            /\ Len(cls.public_variables) > 0 =>
                  DeclaredVariables(secs[1 + NonEmpty(cls.public_functions)].body)
                     = cls.public_variables
            /\ MemberCount(cls) = 0 =>
                  \A l \in 1..Len(lines) :
                     \A a \in 1..Len(lines[l]) :
                        SubSeq(lines[l], a, Len(lines[l])) \notin
                           { SubSeq(PublicLine, 2, Len(PublicLine)),
                             SubSeq(PrivateLine, 2, Len(PrivateLine)) }

\* C13 witness: a header has been generated for a class with public
\* variables and private functions only, and has one marker of each access.
C13_Witness ==
    /\ Len(HeaderClass.public_functions) = 0
    /\ Len(HeaderClass.public_variables) > 0
    /\ Len(HeaderClass.private_functions) > 0
    /\ Len(HeaderClass.private_variables) = 0
    /\ \E f \in HeaderFiles :
          [ k \in 1..Len(Sections(files[f])) |-> Sections(files[f])[k].access ]
             = << "public", "private" >>

\* C14: the module menu is entered from the project menu, and the class menu
\* from the module menu, only through the name prompt, which is reached only
\* with children present; the entity entered is a child, the first one of its
\* name (the name chosen at the prompt), never the result of a failed lookup,
\* and the tree is as it was; option 1 with no child leaves the
\* navigator and the tree as they were.
C14_SelectEntersFirstNamedChild ==
    [][ /\ pc' = "project_select" => Len(project'.modules) > 0
        /\ pc' = "module_select" => Len(ModuleOf(project', curMod').classes) > 0
        /\ (pc \in ProjectPrompts /\ pc' = "module_menu") =>
              /\ pc = "project_select"
              /\ project' = project
              /\ Len(project.modules) > 0
              /\ curMod' # NoObject.id
              /\ \E i \in 1..Len(project.modules) :
                    /\ project.modules[i].id = curMod'
                    /\ project.modules[i].name \in ModuleChoices(project)
                    /\ \A j \in 1..(i - 1) : project.modules[j].name # project.modules[i].name
        /\ (pc \in ModulePrompts /\ pc' = "class_menu") =>
              /\ pc = "module_select"
              /\ project' = project
              /\ curMod' = curMod
              /\ curClass' # NoObject.id
              /\ LET classes == ModuleOf(project, curMod).classes IN
                 /\ Len(classes) > 0
                 /\ \E i \in 1..Len(classes) :
                       /\ classes[i].id = curClass'
                       /\ classes[i].name \in ClassChoices(ModuleOf(project, curMod))
                       /\ \A j \in 1..(i - 1) : classes[j].name # classes[i].name
        /\ (pc = "project_menu" /\ io'.ev = "menu" /\ user_cmd'.project = 1
               /\ Len(project.modules) = 0) =>
              /\ pc' = "project_loop"
              /\ project' = project /\ curMod' = curMod /\ curClass' = curClass
        /\ (pc = "module_menu" /\ io'.ev = "menu" /\ user_cmd'.module = 1
               /\ Len(ModuleOf(project, curMod).classes) = 0) =>
              /\ pc' = "module_menu"
              /\ project' = project /\ curMod' = curMod /\ curClass' = curClass ]_vars

\* C14 witness: option 1 of the project menu has been chosen for a project
\* without modules, and the round has ended with no prompt asked.
C14_Witness ==
    /\ pc = "project_loop"
    /\ io = [ ev |-> "menu", at |-> "project_menu" ]
    /\ user_cmd.project = 1
    /\ Len(project.modules) = 0

\* The module menu has been entered by a name that two modules have, for the
\* first of them.
C14_FirstOfTwoEntered ==
    /\ pc = "module_menu"
    /\ io.ev = "choice"
    /\ \E i, j \in 1..Len(project.modules) :
          /\ i < j
          /\ project.modules[i].name = project.modules[j].name
          /\ project.modules[i].id = curMod

\* Option 1 of the module menu has been chosen for a module without classes.
C14_EmptyCaseReached ==
    /\ pc = "module_menu"
    /\ io.ev = "menu"
    /\ user_cmd.module = 1
    /\ Len(ModuleOf(project, curMod).classes) = 0

\* The answer to the project name prompt of option 4 becomes, sanitized, the
\* name of the project; the modules and the navigator stay.
RenameProjectStep ==
    (pc = "project_rename" /\ io'.ev = "text") =>
        /\ project' = [ project EXCEPT !.name = Sanitize(raw') ]
        /\ pc' = "project_loop"
        /\ curMod' = curMod /\ curClass' = curClass

\* The answer to the module name prompt of option 4 becomes, sanitized, the
\* name of the module shown, whatever the names of the other modules; its
\* classes, the other modules, the project name and the navigator stay.
RenameModuleStep ==
    (pc = "module_rename" /\ io'.ev = "text") =>
        /\ project'.name = project.name
        /\ project'.cppnamespace = project.cppnamespace
        /\ Len(project'.modules) = Len(project.modules)
        /\ \A i \in 1..Len(project.modules) :
              IF project.modules[i].id = curMod
              THEN project'.modules[i] = [ project.modules[i] EXCEPT !.name = Sanitize(raw') ]
              ELSE project'.modules[i] = project.modules[i]
        /\ pc' = "module_menu"
        /\ curMod' = curMod /\ curClass' = curClass

\* Option 5 of the class menu, 'Edit class name', is followed by a prompt for
\* the new name.
RenameClassOffered ==
    (pc = "class_menu" /\ io'.ev = "menu" /\ user_cmd'.class = 5) =>
        pc' # "class_menu"

\* C15 as claimed: in the project menu, in the module menu and in the class
\* menu the rename-self action takes an input and sets the name of the entity
\* shown to its sanitized form, leaving everything else as it was.
C15_RenameSelfInEveryMenu ==
    [][ RenameProjectStep /\ RenameModuleStep /\ RenameClassOffered ]_vars

\* The part of C15 that the project menu and the module menu satisfy.
C15_RenameSelfProjectAndModule ==
    [][ RenameProjectStep /\ RenameModuleStep ]_vars

\* A module has been renamed to the name of another module.
C15_RenamedToSiblingName ==
    /\ io = [ ev |-> "text", at |-> "module_rename" ]
    /\ \E i, j \in 1..Len(project.modules) :
          /\ i # j
          /\ project.modules[i].id = curMod
          /\ project.modules[i].name = project.modules[j].name

\* Where the session is in the project menu: at one of its prompts, at the
\* head of its loop between two rounds, or in its interrupt handler.
ProjectMenuPlaces ==
    ProjectPrompts \cup { "project_loop", "interrupt_confirm", "interrupt_clear" }

\* An interrupt at a prompt of the module menu ends show_module_controls and
\* with it the round of the project menu, one at the prompt of the class menu
\* leads straight to the menu of the module it was entered from; the tree
\* after the interrupt is the tree before it, which is the tree the
\* interrupted action started from, no step from a menu to one of its prompts
\* changing the tree.
InterruptBelowProjectMenu ==
    /\ (io' = [ ev |-> "interrupt", at |-> pc ] /\ pc \in ModulePrompts) =>
          /\ pc' = "project_loop"
          /\ project' = project
    /\ (io' = [ ev |-> "interrupt", at |-> pc ] /\ pc \in ClassPrompts) =>
          /\ pc' = "module_menu"
          /\ curMod' = curMod
          /\ project' = project
    /\ (pc \in { "project_menu", "module_menu", "class_menu" } /\ io'.ev \in { "menu", "interrupt" }) =>
          project' = project

\* C16 as claimed: an interrupt in the module menu or in the class menu
\* returns to the parent without a prompt, and an interrupt in the project
\* menu, wherever the session is in it, leads to the exit confirmation; the
\* tree after the interrupt is the tree before the interrupted action.
C16_InterruptInProjectMenuAsks ==
    [][ /\ InterruptBelowProjectMenu
        /\ (io' = [ ev |-> "interrupt", at |-> pc ] /\ pc \in ProjectMenuPlaces) =>
              /\ pc' = "interrupt_confirm"
              /\ project' = project ]_vars

\* C16 as amended: an interrupt in the module menu or in the class menu
\* returns to the parent without a prompt; an interrupt at a prompt of the
\* project menu (the menu prompt, a name prompt, the confirmation of option 6)
\* leads to the exit confirmation, and an interrupt between two rounds of the
\* project menu or in its interrupt handler ends the process without one; the
\* tree after the interrupt is the tree before the interrupted action.
C16_InterruptReturnsToParent ==
    [][ /\ InterruptBelowProjectMenu
        /\ (io' = [ ev |-> "interrupt", at |-> pc ] /\ pc \in ProjectPrompts) =>
              /\ pc' = "interrupt_confirm"
              /\ project' = project
        /\ (io' = [ ev |-> "interrupt", at |-> pc ]
               /\ pc \in ProjectMenuPlaces \ ProjectPrompts) =>
              /\ pc' = "exited"
              /\ project' = project ]_vars

\* C16 witness: the name prompt of 'Add class' has been interrupted and the
\* round of the project menu has ended, with the seeded modules.
C16_Witness ==
    /\ pc = "project_loop"
    /\ io = [ ev |-> "interrupt", at |-> "module_add" ]
    /\ project.modules = SeededProject(project.name).modules

\* The session has ended by an interrupt between two rounds of the project
\* menu, no confirmation asked.
C16_EndedBetweenRounds ==
    /\ pc = "exited"
    /\ io = [ ev |-> "interrupt", at |-> "project_loop" ]

\* The identities of the modules and the classes of a project.
ObjectIds(proj) ==
    { proj.modules[i].id : i \in 1..Len(proj.modules) }
    \cup UNION { { proj.modules[i].classes[j].id : j \in 1..Len(proj.modules[i].classes) } :
                 i \in 1..Len(proj.modules) }

\* C17: the answer to the name prompt of 'Add module' (and of 'Add class')
\* adds one new object at the end of the modules of the project (of the
\* classes of the module shown): its name is the sanitized answer, it has no
\* children or members, the children there were keep their places and the
\* rest of the tree is as it was, whatever the name; the menu stays.
C17_AddAppendsOneChild ==
    [][ /\ (pc = "project_add" /\ io'.ev = "text") =>
              /\ project'.name = project.name
              /\ Len(project'.modules) = Len(project.modules) + 1
              /\ SubSeq(project'.modules, 1, Len(project.modules)) = project.modules
              /\ LET m == project'.modules[Len(project'.modules)] IN
                 /\ m.name = Sanitize(raw')
                 /\ m.classes = << >>
                 /\ m.id \notin ObjectIds(project)
              /\ pc' = "project_loop"
              /\ curMod' = curMod /\ curClass' = curClass
        /\ (pc = "module_add" /\ io'.ev = "text") =>
              /\ project'.name = project.name
              /\ Len(project'.modules) = Len(project.modules)
              /\ \A i \in 1..Len(project.modules) :
                    LET old == project.modules[i]
                        new == project'.modules[i]
                    IN  IF old.id # curMod THEN new = old
                        ELSE /\ new.id = old.id /\ new.name = old.name
                             /\ Len(new.classes) = Len(old.classes) + 1
                             /\ SubSeq(new.classes, 1, Len(old.classes)) = old.classes
                             /\ LET c == new.classes[Len(new.classes)] IN
                                /\ c.name = Sanitize(raw')
                                /\ c.public_functions = << >> /\ c.private_functions = << >>
                                /\ c.public_variables = << >> /\ c.private_variables = << >>
                                /\ c.id \notin ObjectIds(project)
              /\ pc' = "module_menu"
              /\ curMod' = curMod /\ curClass' = curClass ]_vars

\* C17 witness: a module has been added under the name of a module that was
\* there, and the project has both.
C17_Witness ==
    /\ io = [ ev |-> "text", at |-> "project_add" ]
    /\ pc = "project_menu"
    /\ Len(project.modules) = Len(SeededProject(project.name).modules) + 1
    /\ \E i \in 1..(Len(project.modules) - 1) :
          project.modules[i].name = project.modules[Len(project.modules)].name

\* A class with the empty name has been added.
C17_EmptyNameAdded ==
    /\ io = [ ev |-> "text", at |-> "module_add" ]
    /\ new_name = << >>
    /\ \E i \in 1..Len(project.modules) :
          /\ project.modules[i].id = curMod
          /\ project.modules[i].classes[Len(project.modules[i].classes)].name = << >>

\* The places of the classes in the tree: module position and class position.
ClassPlaces(proj) ==
    UNION { { << i, j >> : j \in 1..Len(proj.modules[i].classes) } :
            i \in 1..Len(proj.modules) }

\* C18: no module object is at two places of the modules of the project, and
\* no class object at two places of the tree, in one module or in two.
C18_EntityModelIsTree ==
    /\ \A i, j \in 1..Len(project.modules) :
          i # j => project.modules[i].id # project.modules[j].id
    /\ \A p, q \in ClassPlaces(project) :
          p # q => project.modules[p[1]].classes[p[2]].id
                      # project.modules[q[1]].classes[q[2]].id

\* C18 witness: a class has been added to a module of the seeded tree.
C18_Witness ==
    /\ io = [ ev |-> "text", at |-> "module_add" ]
    /\ Cardinality(ClassPlaces(project)) = ClassCount(SeededProject(project.name).modules) + 1
    /\ Len(project.modules) = Len(SeededProject(project.name).modules)

\* Within generate_project calls every write of a header or a source file
\* happens while g_current_module is the name of the module that owns the
\* class and the
\* working directory is the directory of that name in the project directory;
\* every generate_cpp_source_files that returns is one of a module with a
\* name, and returns with the project directory as the working directory and
\* None in g_current_module.
C19_GlobalsAndDirectoryFollowTheWalk ==
    \A n \in 1..Len(fsLog) :
        LET e    == fsLog[n]
            pdir == ProjectDir(calls[e.call])
        IN  /\ e.op = "write" =>
                  LET m == project.modules[OwnerIndex(e.obj)] IN
                  /\ e.gcm = m.name
                  /\ e.gpn = calls[e.call].name
                  /\ SubSeq(e.path, 1, Len(e.path) - 1) = pdir \o << m.name >>
            /\ e.op = "return" =>
                  /\ project.modules[OwnerIndex(e.obj)].name # << >>
                  /\ e.path = pdir
                  /\ e.gcm = None

\* The directory a call works in: the project directory of a generate_project
\* call, the directory a direct call is made in.
EnteredDir(call) ==
    IF call.target = None THEN call.target_dir ELSE ProjectDir(call)

\* C19 as claimed, for every call that generates: every write of a header or a
\* source file happens while g_current_module is the name of the module that
\* owns the class and the working directory is the directory of that name in
\* the directory the call works in; every generate_cpp_source_files that
\* returns is one of a module with a name, and returns with that directory as
\* the working directory and None in g_current_module.
C19_WritesUnderOwningModule ==
    \A n \in 1..Len(fsLog) :
        LET e    == fsLog[n]
            base == EnteredDir(calls[e.call])
        IN  /\ e.op = "write" =>
                  LET m == project.modules[OwnerIndex(e.obj)] IN
                  /\ e.gcm = m.name
                  /\ SubSeq(e.path, 1, Len(e.path) - 1) = base \o << m.name >>
            /\ e.op = "return" =>
                  /\ project.modules[OwnerIndex(e.obj)].name # << >>
                  /\ e.path = base
                  /\ e.gcm = None

\* A generate_class_files called directly has written a file.
C19_DirectClassCallWrote ==
    \E n \in 1..Len(fsLog) :
        /\ fsLog[n].op = "write" /\ fsLog[n].ok
        /\ calls[fsLog[n].call].target = None
        /\ fsLog[n].gcm = None

\* In one generation a file of a class was written, the
\* generate_cpp_source_files of its module returned, and the directory of
\* another module was created after that.
C19_Witness ==
    \E a, b, c \in 1..Len(fsLog) :
        /\ a < b /\ b < c
        /\ fsLog[a].call = fsLog[c].call
        /\ fsLog[a].op = "write" /\ fsLog[a].ok
        /\ fsLog[b].op = "return"
        /\ fsLog[b].obj = project.modules[OwnerIndex(fsLog[a].obj)].id
        /\ fsLog[c].op = "mkdir" /\ fsLog[c].ok
        /\ fsLog[c].obj # fsLog[b].obj

\* C20: no step taken at the prompt of the class menu changes the tree; the
\* options 1 to 5 show the class menu again, and the class menu is left, for
\* the menu of the module, only by option 6 and by an interrupt.
C20_ClassMenuChangesNothing ==
    [][ pc = "class_menu" =>
           /\ project' = project
           /\ curMod' = curMod
           /\ (io'.ev = "menu" /\ user_cmd'.class \in 1..5) =>
                 (pc' = "class_menu" /\ curClass' = curClass)
           /\ pc' # "class_menu" =>
                 /\ pc' = "module_menu"
                 /\ \/ io' = [ ev |-> "interrupt", at |-> "class_menu" ]
                    \/ io' = [ ev |-> "menu", at |-> "class_menu" ]
                          /\ user_cmd'.class \notin 1..5 ]_vars

\* C20 witness: 'Edit class name' has been chosen in the class menu of the
\* seeded class client_app, and the class menu is shown with the class as it
\* was.
C20_Witness ==
    /\ pc = "class_menu"
    /\ io = [ ev |-> "menu", at |-> "class_menu" ]
    /\ user_cmd.class = 5
    /\ curClass = SeedClientApp.id
    /\ project.modules[1].classes[1] = SeedClientApp

====
